---- MODULE Spec2Model ----
(***************************************************************************)
(* Model of the trend collection and ranking pipeline of scraper.py:       *)
(* TrendScraper.collect (orchestrator: concurrent source adapters, merge,  *)
(* filter, dedup, rank, category summary), the source adapters, _fetch and *)
(* the pure helpers (clamp, _categorize, _score, _extract_keywords,        *)
(* source_seasonal); and of daily_workflow of app.py with the report it    *)
(* writes.                                                                 *)
(*                                                                         *)
(* Python strings are modelled as sequences of one-character strings so    *)
(* that strip(), lower(), split(), len() and the substring tests are       *)
(* computed as the code computes them.                                     *)
(***************************************************************************)
EXTENDS Integers, Sequences, FiniteSets, TLC

(***************************************************************************)
(* Bounds of the model (not program constants).                            *)
(***************************************************************************)
\* largest number of adapter records (all adapters together) in a small scenario
MaxRaw == 2
\* number of records of the one large adapter output (exceeds the top-20 cut)
BulkLen == 20

(***************************************************************************)
(* str helpers                                                             *)
(***************************************************************************)
UpperAlpha ==
    << "A","B","C","D","E","F","G","H","I","J","K","L","M",
       "N","O","P","Q","R","S","T","U","V","W","X","Y","Z" >>

LowerAlpha ==
    << "a","b","c","d","e","f","g","h","i","j","k","l","m",
       "n","o","p","q","r","s","t","u","v","w","x","y","z" >>

\* one character of str.lower()
lower_char(c) ==
    IF \E i \in 1..26 : UpperAlpha[i] = c
    THEN LowerAlpha[CHOOSE i \in 1..26 : UpperAlpha[i] = c]
    ELSE c

\* str.lower()
lower(s) == [i \in 1..Len(s) |-> lower_char(s[i])]

\* the characters str.strip() and str.split() treat as whitespace
isspace(c) == c \in {" ", "\t", "\n"}

\* str.strip(): drop leading and trailing whitespace
strip(s) ==
    LET keep == {i \in 1..Len(s) : ~isspace(s[i])}
    IN  IF keep = {} THEN << >>
        ELSE SubSeq(s, CHOOSE i \in keep : \A j \in keep : i <= j,
                       CHOOSE i \in keep : \A j \in keep : i >= j)

\* len(s.split()): number of maximal runs of non-whitespace characters
word_count(s) ==
    Cardinality({i \in 1..Len(s) : ~isspace(s[i]) /\ (i = 1 \/ isspace(s[i-1]))})

\* Python's "sub in s"
contains(s, sub) ==
    \E i \in 0..(Len(s) - Len(sub)) : \A j \in 1..Len(sub) : s[i + j] = sub[j]

\* any(t in k for t in xs)
anyin(k, xs) == \E n \in 1..Len(xs) : contains(k, xs[n])

\* re.search(r'_{2,}', kw)
has_underscore_run(s) == contains(s, << "_", "_" >>)

(***************************************************************************)
(* clamp (scraper.py:58)                                                   *)
(***************************************************************************)
Max(a, b) == IF a >= b THEN a ELSE b

Min(a, b) == IF a <= b THEN a ELSE b

clamp_unbounded(v, lo, hi) == v

clamp(v, lo, hi) == Max(lo, Min(hi, v))

(***************************************************************************)
(* _categorize (scraper.py:169): ordered substring rules                   *)
(***************************************************************************)
markers_technology ==
    << <<"a","i">>, <<"a","r","t","i","f","i","c","i","a","l">>, 
       <<"m","a","c","h","i","n","e"," ","l","e","a","r","n","i","n","g">>, <<"m","l">>, 
       <<"b","l","o","c","k","c","h","a","i","n">>, <<"s","a","a","s">>, <<"a","p","i">>, 
       <<"c","l","o","u","d">>, <<"v","r">>, <<"a","r">>, <<"3","d">>, <<"d","a","t","a">> >>

markers_business ==
    << <<"b","u","s","i","n","e","s","s">>, <<"c","o","r","p","o","r","a","t","e">>, 
       <<"o","f","f","i","c","e">>, <<"s","t","a","r","t","u","p">>, <<"s","t","r","a","t","e","g","y">>, 
       <<"m","a","r","k","e","t","i","n","g">>, <<"r","e","v","e","n","u","e">>, 
       <<"m","e","e","t","i","n","g">> >>

markers_medical ==
    << <<"m","e","d","i","c","a","l">>, <<"h","e","a","l","t","h">>, 
       <<"h","e","a","l","t","h","c","a","r","e">>, <<"d","o","c","t","o","r">>, <<"n","u","r","s","e">>, 
       <<"p","a","t","i","e","n","t">>, <<"t","h","e","r","a","p","y">>, <<"v","a","c","c","i","n","e">>, 
       <<"f","i","t","n","e","s","s">>, <<"w","e","l","l","n","e","s","s">> >>

markers_education ==
    << <<"e","d","u","c","a","t","i","o","n">>, <<"s","c","h","o","o","l">>, 
       <<"s","t","u","d","e","n","t">>, <<"t","e","a","c","h","e","r">>, 
       <<"u","n","i","v","e","r","s","i","t","y">>, <<"l","e","a","r","n","i","n","g">>, 
       <<"r","e","s","e","a","r","c","h">> >>

markers_food ==
    << <<"f","o","o","d">>, <<"c","u","i","s","i","n","e">>, <<"c","o","o","k","i","n","g">>, 
       <<"m","e","a","l">>, <<"r","e","c","i","p","e">>, <<"k","i","t","c","h","e","n">>, 
       <<"c","o","f","f","e","e">>, <<"t","e","a">>, <<"r","e","s","t","a","u","r","a","n","t">>, 
       <<"d","i","e","t">>, <<"v","e","g","a","n">>, <<"p","l","a","n","t">> >>

markers_nature ==
    << <<"n","a","t","u","r","e">>, <<"f","o","r","e","s","t">>, <<"m","o","u","n","t","a","i","n">>, 
       <<"o","c","e","a","n">>, <<"s","e","a">>, <<"b","e","a","c","h">>, <<"s","k","y">>, 
       <<"w","i","l","d","l","i","f","e">>, <<"g","r","e","e","n">>, 
       <<"s","u","s","t","a","i","n","a","b","l","e">>, <<"c","l","i","m","a","t","e">> >>

markers_lifestyle ==
    << <<"l","i","f","e","s","t","y","l","e">>, <<"f","a","m","i","l","y">>, <<"p","e","o","p","l","e">>, 
       <<"b","e","a","u","t","y">>, <<"f","a","s","h","i","o","n">>, <<"h","o","m","e">>, 
       <<"i","n","t","e","r","i","o","r">>, <<"y","o","g","a">>, 
       <<"m","e","d","i","t","a","t","i","o","n">> >>

Categories ==
    {"technology", "business", "medical", "education", "food", "nature", "lifestyle", "general"}

_categorize_business_first(keyword) ==
    LET k == lower(keyword)
    IN  IF anyin(k, markers_business) THEN "business"
        ELSE IF anyin(k, markers_technology) THEN "technology"
        ELSE IF anyin(k, markers_medical) THEN "medical"
        ELSE IF anyin(k, markers_education) THEN "education"
        ELSE IF anyin(k, markers_food) THEN "food"
        ELSE IF anyin(k, markers_nature) THEN "nature"
        ELSE IF anyin(k, markers_lifestyle) THEN "lifestyle"
        ELSE "general"

_categorize(keyword) ==
    LET k == lower(keyword)
    IN  IF anyin(k, markers_technology) THEN "technology"
        ELSE IF anyin(k, markers_business) THEN "business"
        ELSE IF anyin(k, markers_medical) THEN "medical"
        ELSE IF anyin(k, markers_education) THEN "education"
        ELSE IF anyin(k, markers_food) THEN "food"
        ELSE IF anyin(k, markers_nature) THEN "nature"
        ELSE IF anyin(k, markers_lifestyle) THEN "lifestyle"
        ELSE "general"

(***************************************************************************)
(* _score (scraper.py:188).  jitter stands for random.randint(-2, 2).      *)
(***************************************************************************)
bonus_ai ==
    << <<"a","i">>, 
       <<"a","r","t","i","f","i","c","i","a","l"," ","i","n","t","e","l","l","i","g","e","n","c","e">>, 
       <<"m","a","c","h","i","n","e"," ","l","e","a","r","n","i","n","g">>, <<"3","d">> >>

bonus_eco ==
    << <<"s","u","s","t","a","i","n","a","b","l","e">>, <<"g","r","e","e","n">>, <<"e","c","o">>, 
       <<"r","e","n","e","w","a","b","l","e">> >>

bonus_remote ==
    << <<"r","e","m","o","t","e"," ","w","o","r","k">>, 
       <<"d","i","g","i","t","a","l"," ","t","r","a","n","s","f","o","r","m","a","t","i","o","n">>, 
       <<"h","y","b","r","i","d">> >>

bonus_health ==
    << <<"h","e","a","l","t","h">>, <<"w","e","l","l","n","e","s","s">>, 
       <<"m","e","n","t","a","l"," ","h","e","a","l","t","h">> >>

bonus_diversity ==
    << <<"d","i","v","e","r","s","i","t","y">>, <<"i","n","c","l","u","s","i","o","n">> >>

Jitter == -2..2

ScoreLo == 50

ScoreHi == 99

base_score(source) ==
    CASE source = "pexels_api" -> 85
      [] source = "unsplash_api" -> 84
      [] source = "unsplash_topics" -> 78
      [] source = "pytrends" -> 88
      [] source = "seasonal" -> 72
      [] OTHER -> 70

marker_bonus(keyword) ==
    LET kl == lower(keyword)
    IN  IF anyin(kl, bonus_ai) THEN 8
        ELSE IF anyin(kl, bonus_eco) THEN 6
        ELSE IF anyin(kl, bonus_remote) THEN 6
        ELSE IF anyin(kl, bonus_health) THEN 5
        ELSE IF anyin(kl, bonus_diversity) THEN 4
        ELSE 0

words_bonus(keyword) ==
    LET wc == word_count(keyword)
    IN  IF wc = 2 THEN 3 ELSE IF wc = 3 THEN 2 ELSE 0

length_penalty(keyword) ==
    IF Len(keyword) > 40 THEN 6 ELSE IF Len(keyword) > 30 THEN 3 ELSE 0

\* the value handed to clamp at scraper.py:222
raw_score(keyword, source, jitter) ==
    base_score(source) + marker_bonus(keyword) + words_bonus(keyword)
        - length_penalty(keyword) + jitter

_score(keyword, source, jitter) ==
    clamp(raw_score(keyword, source, jitter), ScoreLo, ScoreHi)

(***************************************************************************)
(* TrendRecord as the adapters build it (scraper.py:254, 301, 345, 382)    *)
(***************************************************************************)
TrendRecord(kw, source, jitter) ==
    [keyword |-> kw, popularity |-> _score(kw, source, jitter),
     category |-> _categorize(kw), source |-> source]

(***************************************************************************)
(* source_seasonal (scraper.py:398).  month stands for datetime.now().month*)
(* and rolls[i] for the i-th random.randint(70, 88).                       *)
(***************************************************************************)
season_names ==
    << <<"w","i","n","t","e","r">>, <<"s","p","r","i","n","g">>, <<"s","u","m","m","e","r">>, <<"a","u","t","u","m","n">> >>

buckets ==
    << <<"b","u","s","i","n","e","s","s">>, <<"l","i","f","e","s","t","y","l","e">>, <<"n","a","t","u","r","e">>,
       <<"t","e","c","h","n","o","l","o","g","y">>, <<"f","o","o","d">>, <<"e","d","u","c","a","t","i","o","n">> >>

SeasonalLo == 70

SeasonalHi == 88

source_seasonal_none(month, rolls) == << >>

source_seasonal_shifted(month, rolls) ==
    LET season == season_names[((month \div 3) % 4) + 1]
    IN  [b \in 1..Len(buckets) |->
            LET kw == season \o << " " >> \o buckets[b]
            IN  [keyword |-> kw, popularity |-> rolls[b],
                 category |-> _categorize(kw), source |-> "seasonal"]]

source_seasonal(month, rolls) ==
    LET season == season_names[(((month - 1) \div 3) % 4) + 1]
    IN  [b \in 1..Len(buckets) |->
            LET kw == season \o << " " >> \o buckets[b]
            IN  [keyword |-> kw, popularity |-> rolls[b],
                 category |-> _categorize(kw), source |-> "seasonal"]]

(***************************************************************************)
(* Inputs of the model: keywords the adapters harvest, the month and the   *)
(* seasonal popularity rolls.                                              *)
(***************************************************************************)
kw_business == <<"b","u","s","i","n","e","s","s">>

kw_ai_padded == <<" ","a","i"," ">>

kw_ai3 == <<"a","i","3">>

kw_winter_lifestyle == <<"w","i","n","t","e","r"," ","l","i","f","e","s","t","y","l","e">>

kw_foo__bar == <<"f","o","o","_","_","b","a","r">>

kw_remote_work == <<"r","e","m","o","t","e"," ","w","o","r","k">>

kw_Remote_Work == <<"R","e","m","o","t","e"," ","W","o","r","k"," ">>

kw_trend == <<"t","r","e","n","d">>

MinKwLen == 3

MaxKwLen == 50

\* a single token of exactly MaxKwLen characters, and one character more
kw_len50 == [i \in 1..MaxKwLen |-> "z"]

kw_len51 == [i \in 1..(MaxKwLen + 1) |-> "z"]

\* The records one call of an adapter can return.  collect() takes whatever
\* list the callables of `sources` return and normalizes the keywords itself
\* (scraper.py:464), so the inputs include two keywords that are not in
\* normalized form (kw_ai_padded, kw_Remote_Work).
PexelsPool ==
    { TrendRecord(kw_business, "pexels_api", -1),
      TrendRecord(kw_ai_padded, "pexels_api", 0),
      TrendRecord(kw_len51, "pexels_api", 0) }

UnsplashApiPool ==
    { TrendRecord(kw_business, "unsplash_api", 0),
      TrendRecord(kw_ai3, "unsplash_api", 0) }

UnsplashTopicsPool ==
    { TrendRecord(kw_winter_lifestyle, "unsplash_topics", -2),
      TrendRecord(kw_foo__bar, "unsplash_topics", 0) }

PytrendsPool ==
    { TrendRecord(kw_remote_work, "pytrends", -2),
      TrendRecord(kw_Remote_Work, "pytrends", 0),
      TrendRecord(kw_len50, "pytrends", 2) }

\* a large harvest: BulkLen records with pairwise distinct keywords,
\* alternately of one word ("trendb") and of two words ("trend a"); the
\* stems after the twelfth are markers of lifestyle and of nature
BulkOutput ==
    [i \in 1..BulkLen |->
        LET stem == IF i <= 12 THEN kw_trend
                    ELSE IF i <= 16 THEN <<"y","o","g","a">>
                    ELSE <<"s","k","y">>
        IN  TrendRecord(IF i % 2 = 0 THEN stem \o << LowerAlpha[i] >>
                                     ELSE stem \o << " ", LowerAlpha[i] >>,
                        "pytrends", (i % 5) - 2)]

SeqsUpTo(S, n) == UNION {[1..k -> S] : k \in 0..n}

PexelsOutputs == SeqsUpTo(PexelsPool, MaxRaw)

UnsplashOutputs == SeqsUpTo(UnsplashApiPool, MaxRaw) \cup SeqsUpTo(UnsplashTopicsPool, MaxRaw)

PytrendsOutputs == SeqsUpTo(PytrendsPool, MaxRaw) \cup {BulkOutput}

AdapterOutputs(name) ==
    CASE name = "pexels_api" -> PexelsOutputs
      [] name = "unsplash" -> UnsplashOutputs
      [] name = "pytrends" -> PytrendsOutputs

\* datetime.now().month of the runs: a winter month, the season of the
\* keyword the topic pages and the seasonal baseline share
Months == {2}

SeasonalRolls == { << 84, 84, 85, 70, 85, 75 >> }

\* seasonals = self.source_seasonal(), for the months and rolls of the model
SeasonalOutputs == {source_seasonal(month, rolls) : month \in Months, rolls \in SeasonalRolls}

(***************************************************************************)
(* State of one run of TrendScraper.collect                                *)
(***************************************************************************)
VARIABLES
    pc,            \* position of the orchestrator thread inside collect()
    fut,           \* futs: adapter name -> state of its future
    handled,       \* futures already yielded by as_completed and handled
    all_trends,    \* list of raw candidate records
    used_sources,  \* list of source names
    unique,        \* dict kw -> record, as the list of its items in insertion order
    idx,           \* position of the merge loop in all_trends
    ranked,        \* the sorted list of unique.values()
    top_trends,    \* ranked[:20]
    categories,    \* dict category -> summary, in insertion order
    data,          \* the dict collect() returns
    exc,           \* exception propagating out of collect(), "none" if none
    call,          \* a pending call of a pure helper
    ret,           \* its result
    fetch,         \* one call of _fetch
    adapter,       \* one call of a source adapter
    workflow       \* one run of daily_workflow() of app.py

vars ==
    << pc, fut, handled, all_trends, used_sources, unique, idx, ranked,
       top_trends, categories, data, exc, call, ret, fetch, adapter, workflow >>

\* the variables of a run of collect()
collect_vars ==
    << pc, fut, handled, all_trends, used_sources, unique, idx, ranked,
       top_trends, categories, data, exc >>

\* sources (scraper.py:423), in submission order
sources == << "pexels_api", "unsplash", "pytrends" >>

SourceNames == {sources[i] : i \in 1..Len(sources)}

TopN == 20

TopKeywords == 5

NoData ==
    [sources_used |-> << >>, total_keywords_found |-> 0, trending_searches |-> << >>,
     popular_categories |-> << >>, seasonal_trends |-> << >>]

NoCall == [fn |-> "none", keyword |-> << >>, source |-> "", jitter |-> 0]

NoRet == [done |-> FALSE, value |-> 0]

\* no call of _fetch is under way
NoFetch ==
    [pc |-> "idle", max_tries |-> 0, attempt |-> 0, log |-> << >>, slept |-> << >>,
     result |-> "pending"]

\* a file that was not written
NoFile == [written |-> FALSE, success |-> FALSE, steps_completed |-> << >>]

\* no run of daily_workflow is under way; images is len(generated_images)
NoWorkflow ==
    [pc |-> "idle", scraper |-> FALSE, generator |-> FALSE, metadata |-> FALSE,
     auto_cleanup |-> FALSE, images |-> 0,
     steps_completed |-> << >>, errors |-> 0, metrics |-> {}, image_analysis |-> FALSE,
     success |-> FALSE, workflow_report_json |-> NoFile, summary_txt |-> NoFile,
     error_report_json |-> NoFile, result |-> "pending"]

\* no call of an adapter is under way
NoAdapter ==
    [fn |-> "none", available |-> FALSE, limit_terms |-> 0, pc |-> "idle", src |-> "",
     i |-> 0, trends |-> << >>, result |-> << >>]

CollectInit ==
    /\ pc = "start"
    /\ fut = [n \in SourceNames |-> [state |-> "PENDING", raised |-> FALSE, result |-> << >>]]
    /\ handled = {}
    /\ all_trends = << >>
    /\ used_sources = << >>
    /\ unique = << >>
    /\ idx = 0
    /\ ranked = << >>
    /\ top_trends = << >>
    /\ categories = << >>
    /\ data = NoData
    /\ exc = "none"

Init ==
    /\ CollectInit
    /\ workflow = NoWorkflow
    /\ call = NoCall
    /\ ret = NoRet
    /\ fetch = NoFetch
    /\ adapter = NoAdapter

(***************************************************************************)
(* sorted(xs, key=..., reverse=True): descending and stable, i.e. records  *)
(* with equal keys keep their order in xs.  gt is the set of the pairs     *)
(* <<i, j>> of positions with key(xs[i]) > key(xs[j]).                     *)
(***************************************************************************)
sorted_reverse(xs, gt) ==
    LET n == Len(xs)
        pos(i) == 1 + Cardinality({j \in 1..n : << j, i >> \in gt})
                    + Cardinality({j \in 1..(i - 1) : << j, i >> \notin gt /\ << i, j >> \notin gt})
    IN  [p \in 1..n |-> xs[CHOOSE i \in 1..n : pos(i) = p]]

take_all(xs, n) == xs

\* xs[:n]
take(xs, n) == SubSeq(xs, 1, Min(n, Len(xs)))

(***************************************************************************)
(* The merge pass (scraper.py:453-480)                                     *)
(***************************************************************************)
source_priority(source) ==
    CASE source = "pytrends" -> 9
      [] source = "pexels_api" -> 8
      [] source = "unsplash_api" -> 7
      [] source = "unsplash_topics" -> 6
      [] source = "seasonal" -> 4
      [] OTHER -> 0

\* kw = t["keyword"].strip().lower()
raw_key(keyword) == keyword

normalize(keyword) == lower(strip(keyword))

\* the two filters of scraper.py:465-469, on the normalized keyword
passes_filter_no_floor(kw) ==
    /\ Len(kw) <= MaxKwLen
    /\ ~has_underscore_run(kw)

passes_filter(kw) ==
    /\ MinKwLen <= Len(kw) /\ Len(kw) <= MaxKwLen
    /\ ~has_underscore_run(kw)

\* the replacement test of scraper.py:477
replaces_on_popularity_only(t, cur) == t.popularity > cur.popularity

replaces(t, cur) ==
    LET cp == source_priority(cur.source)
        np_ == source_priority(t.source)
    IN  \/ t.popularity > cur.popularity
        \/ (t.popularity = cur.popularity /\ np_ > cp)

\* one iteration of "for t in all_trends" on the dict u
merge_one_reinsert(u, t) ==
    LET kw == normalize(t.keyword)
        hit == {p \in 1..Len(u) : u[p].key = kw}
    IN  IF ~passes_filter(kw) THEN u
        ELSE IF hit = {} THEN Append(u, [key |-> kw, value |-> t])
        ELSE LET p == CHOOSE q \in hit : TRUE
             IN  IF replaces(t, u[p].value)
                 THEN Append(SelectSeq(u, LAMBDA e : e.key # kw), [key |-> kw, value |-> t])
                 ELSE u

merge_one_raises_popularity(u, t) ==
    LET kw == normalize(t.keyword)
        hit == {p \in 1..Len(u) : u[p].key = kw}
    IN  IF ~passes_filter(kw) THEN u
        ELSE IF hit = {} THEN Append(u, [key |-> kw, value |-> t])
        ELSE LET p == CHOOSE q \in hit : TRUE
             IN  [u EXCEPT ![p].value.popularity = Max(@, t.popularity)]

merge_one(u, t) ==
    LET kw == normalize(t.keyword)
        hit == {p \in 1..Len(u) : u[p].key = kw}
    IN  IF ~passes_filter(kw) THEN u
        ELSE IF hit = {} THEN Append(u, [key |-> kw, value |-> t])
        ELSE LET p == CHOOSE q \in hit : TRUE
             IN  IF replaces(t, u[p].value) THEN [u EXCEPT ![p].value = t] ELSE u

\* unique.values()
values(u) == [p \in 1..Len(u) |-> u[p].value]

(***************************************************************************)
(* Ranking (scraper.py:483-489)                                            *)
(***************************************************************************)
rank_key_popularity_only(a, b) == a.popularity > b.popularity

\* key=lambda x: (x["popularity"], len(x["keyword"].split())), compared as tuples
rank_key_gt(a, b) ==
    \/ a.popularity > b.popularity
    \/ (a.popularity = b.popularity /\ word_count(a.keyword) > word_count(b.keyword))

rank(u) ==
    LET xs == values(u)
    IN  sorted_reverse(xs, {ij \in (1..Len(xs)) \X (1..Len(xs)) : rank_key_gt(xs[ij[1]], xs[ij[2]])})

(***************************************************************************)
(* Category summary (scraper.py:491-509)                                   *)
(***************************************************************************)
\* str.title() on the category names
title(cat) ==
    CASE cat = "technology" -> "Technology"
      [] cat = "business" -> "Business"
      [] cat = "medical" -> "Medical"
      [] cat = "education" -> "Education"
      [] cat = "food" -> "Food"
      [] cat = "nature" -> "Nature"
      [] cat = "lifestyle" -> "Lifestyle"
      [] cat = "general" -> "General"
      [] OTHER -> cat

add_to_category_overwrite(cats, tr) ==
    LET cat == tr.category
        hit == {p \in 1..Len(cats) : cats[p].key = cat}
        kwp == [keyword |-> tr.keyword, popularity |-> tr.popularity]
    IN  IF hit = {}
        THEN Append(cats, [key |-> cat, name |-> title(cat), count |-> 1,
                           total_popularity |-> tr.popularity, top_keywords |-> << kwp >>])
        ELSE LET p == CHOOSE q \in hit : TRUE
             IN  [cats EXCEPT ![p].count = @ + 1,
                              ![p].total_popularity = tr.popularity,
                              ![p].top_keywords = Append(@, kwp)]

\* the body of "for tr in top_trends" (scraper.py:493-504)
add_to_category(cats, tr) ==
    LET cat == tr.category
        hit == {p \in 1..Len(cats) : cats[p].key = cat}
        kwp == [keyword |-> tr.keyword, popularity |-> tr.popularity]
    IN  IF hit = {}
        THEN Append(cats, [key |-> cat, name |-> title(cat), count |-> 1,
                           total_popularity |-> tr.popularity, top_keywords |-> << kwp >>])
        ELSE LET p == CHOOSE q \in hit : TRUE
             IN  [cats EXCEPT ![p].count = @ + 1,
                              ![p].total_popularity = @ + tr.popularity,
                              ![p].top_keywords = Append(@, kwp)]

RECURSIVE group_by_category(_, _)
group_by_category(trs, cats) ==
    IF trs = << >> THEN cats
    ELSE group_by_category(Tail(trs), add_to_category(cats, Head(trs)))

popularity_lt(a, b) == a.popularity < b.popularity

popularity_gt(a, b) == a.popularity > b.popularity

\* the body of "for c in categories.values()" (scraper.py:506-509); the float
\* total / max(1, count) is kept as the exact fraction num/den
finalize_category(c) ==
    [key |-> c.key, name |-> c.name, count |-> c.count,
     avg_popularity |-> [num |-> c.total_popularity, den |-> Max(1, c.count)],
     top_keywords |->
        LET ks == c.top_keywords
            gt == {ij \in (1..Len(ks)) \X (1..Len(ks)) : popularity_gt(ks[ij[1]], ks[ij[2]])}
        IN  take(sorted_reverse(ks, gt), TopKeywords)]

build_categories(trs) ==
    LET grouped == group_by_category(trs, << >>)
    IN  [p \in 1..Len(grouped) |-> finalize_category(grouped[p])]

avg_gt(a, b) ==
    a.avg_popularity.num * b.avg_popularity.den > b.avg_popularity.num * a.avg_popularity.den

(***************************************************************************)
(* TrendScraper.collect (scraper.py:418-521)                               *)
(***************************************************************************)
\* number of records the finished adapters have returned
load ==
    LET len(n) == IF fut[n].state = "FINISHED" THEN Len(fut[n].result) ELSE 0
    IN  len("pexels_api") + len("unsplash") + len("pytrends")

\* the inputs of one run: the adapters return MaxRaw records at most between
\* them, or one of them alone returns the large harvest
within_bounds(res) ==
    \/ load + Len(res) <= MaxRaw
    \/ (res = BulkOutput /\ load = 0)

\* futs = {ex.submit(fn): name for name, fn in sources}: with max_workers = 3
\* every task starts running at once
Submit ==
    /\ pc = "start"
    /\ pc' = "waiting"
    /\ fut' = [n \in SourceNames |-> [fut[n] EXCEPT !.state = "RUNNING"]]
    /\ UNCHANGED << handled, all_trends, used_sources, unique, idx, ranked,
                    top_trends, categories, data, exc, call, ret, fetch, adapter, workflow >>

\* an adapter thread returns its list
TaskReturnAppends(name) ==
    /\ pc \in {"waiting", "shutdown"}
    /\ fut[name].state = "RUNNING"
    /\ \E res \in AdapterOutputs(name) :
          /\ within_bounds(res)
          /\ fut' = [fut EXCEPT ![name] = [state |-> "FINISHED", raised |-> FALSE, result |-> res]]
          /\ all_trends' = all_trends \o res
    /\ UNCHANGED << pc, handled, used_sources, unique, idx, ranked,
                    top_trends, categories, data, exc, call, ret, fetch, adapter, workflow >>

TaskReturn(name) ==
    /\ pc \in {"waiting", "shutdown"}
    /\ fut[name].state = "RUNNING"
    /\ \E res \in AdapterOutputs(name) :
          /\ within_bounds(res)
          /\ fut' = [fut EXCEPT ![name] = [state |-> "FINISHED", raised |-> FALSE, result |-> res]]
    /\ UNCHANGED << pc, handled, all_trends, used_sources, unique, idx, ranked,
                    top_trends, categories, data, exc, call, ret, fetch, adapter, workflow >>

\* an adapter thread ends with an exception, which the future stores
TaskRaise(name) ==
    /\ pc \in {"waiting", "shutdown"}
    /\ fut[name].state = "RUNNING"
    /\ fut' = [fut EXCEPT ![name] = [state |-> "FINISHED", raised |-> TRUE, result |-> << >>]]
    /\ UNCHANGED << pc, handled, all_trends, used_sources, unique, idx, ranked,
                    top_trends, categories, data, exc, call, ret, fetch, adapter, workflow >>

\* the body of "for fut in as_completed(futs, timeout=180)" (scraper.py:433-445);
\* as_completed yields the finished futures in any order
HandleFutureAbort(name) ==
    /\ pc = "waiting"
    /\ fut[name].state = "FINISHED"
    /\ name \notin handled
    /\ handled' = handled \cup {name}
    /\ IF fut[name].raised
       THEN /\ pc' = "raised"
            /\ exc' = "Exception"
            /\ UNCHANGED << all_trends, used_sources, workflow >>
       ELSE /\ all_trends' = all_trends \o fut[name].result
            /\ used_sources' = IF fut[name].result # << >> THEN Append(used_sources, name)
                                                          ELSE used_sources
            /\ UNCHANGED << pc, exc, workflow >>
    /\ UNCHANGED << fut, unique, idx, ranked, top_trends, categories, data, call, ret, fetch, adapter, workflow >>

HandleFutureAlwaysUsed(name) ==
    /\ pc = "waiting"
    /\ fut[name].state = "FINISHED"
    /\ name \notin handled
    /\ handled' = handled \cup {name}
    /\ IF ~fut[name].raised
       THEN /\ all_trends' = all_trends \o fut[name].result
            /\ used_sources' = Append(used_sources, name)
       ELSE UNCHANGED << all_trends, used_sources, workflow >>
    /\ UNCHANGED << pc, fut, unique, idx, ranked, top_trends, categories, data,
                    exc, call, ret, fetch, adapter, workflow >>

HandleFuture(name) ==
    /\ pc = "waiting"
    /\ fut[name].state = "FINISHED"
    /\ name \notin handled
    /\ handled' = handled \cup {name}
    /\ IF ~fut[name].raised /\ fut[name].result # << >>
       THEN /\ all_trends' = all_trends \o fut[name].result
            /\ used_sources' = Append(used_sources, name)
       ELSE UNCHANGED << all_trends, used_sources, workflow >>
    /\ UNCHANGED << pc, fut, unique, idx, ranked, top_trends, categories, data,
                    exc, call, ret, fetch, adapter, workflow >>

\* as_completed raises TimeoutError from its iterator once 180 s have passed
\* and a future is still unfinished: the raise is outside the try of the loop
\* body, so it leaves the for loop and the with block
GlobalTimeout ==
    /\ pc = "waiting"
    /\ \E n \in SourceNames : fut[n].state = "RUNNING"
    /\ pc' = "shutdown"
    /\ exc' = "TimeoutError"
    /\ UNCHANGED << fut, handled, all_trends, used_sources, unique, idx, ranked,
                    top_trends, categories, data, call, ret, fetch, adapter, workflow >>

\* ThreadPoolExecutor.__exit__: shutdown(wait=True) joins the workers, then
\* the exception leaves collect()
ShutdownDone ==
    /\ pc = "shutdown"
    /\ \A n \in SourceNames : fut[n].state = "FINISHED"
    /\ pc' = "raised"
    /\ UNCHANGED << fut, handled, all_trends, used_sources, unique, idx, ranked,
                    top_trends, categories, data, exc, call, ret, fetch, adapter, workflow >>

\* scraper.py:447-451, reached when the for loop has handled every future
AppendSeasonal ==
    /\ pc = "waiting"
    /\ handled = SourceNames
    /\ \E seasonals \in SeasonalOutputs : all_trends' = all_trends \o seasonals
    /\ used_sources' = IF \E i \in 1..Len(used_sources) : used_sources[i] = "seasonal"
                       THEN used_sources ELSE Append(used_sources, "seasonal")
    /\ unique' = << >>
    /\ idx' = 1
    /\ pc' = "merge"
    /\ UNCHANGED << fut, handled, ranked, top_trends, categories, data, exc, call, ret, fetch, adapter, workflow >>

\* one iteration of the merge loop (scraper.py:463-480)
MergeStep ==
    /\ pc = "merge"
    /\ idx <= Len(all_trends)
    /\ unique' = merge_one(unique, all_trends[idx])
    /\ idx' = idx + 1
    /\ UNCHANGED << pc, fut, handled, all_trends, used_sources, ranked, top_trends,
                    categories, data, exc, call, ret, fetch, adapter, workflow >>

\* scraper.py:483-489
Rank ==
    /\ pc = "merge"
    /\ idx > Len(all_trends)
    /\ ranked' = rank(unique)
    /\ top_trends' = take(ranked', TopN)
    /\ pc' = "summary"
    /\ UNCHANGED << fut, handled, all_trends, used_sources, unique, idx, categories,
                    data, exc, call, ret, fetch, adapter, workflow >>

\* scraper.py:491-509
BuildCategories ==
    /\ pc = "summary"
    /\ categories' = build_categories(top_trends)
    /\ pc' = "assemble"
    /\ UNCHANGED << fut, handled, all_trends, used_sources, unique, idx, ranked,
                    top_trends, data, exc, call, ret, fetch, adapter, workflow >>

ReturnCountsUnique ==
    /\ pc = "assemble"
    /\ data' = [sources_used |-> used_sources,
                total_keywords_found |-> Len(unique),
                trending_searches |-> top_trends,
                popular_categories |->
                    LET n == Len(categories)
                    IN  sorted_reverse(categories,
                            {ij \in (1..n) \X (1..n) : avg_gt(categories[ij[1]], categories[ij[2]])}),
                seasonal_trends |-> SelectSeq(top_trends, LAMBDA t : t.source = "seasonal")]
    /\ pc' = "done"
    /\ UNCHANGED << fut, handled, all_trends, used_sources, unique, idx, ranked,
                    top_trends, categories, exc, call, ret, fetch, adapter, workflow >>

ReturnAllSeasonals ==
    /\ pc = "assemble"
    /\ data' = [sources_used |-> used_sources,
                total_keywords_found |-> Len(all_trends),
                trending_searches |-> top_trends,
                popular_categories |->
                    LET n == Len(categories)
                    IN  sorted_reverse(categories,
                            {ij \in (1..n) \X (1..n) : avg_gt(categories[ij[1]], categories[ij[2]])}),
                seasonal_trends |-> SelectSeq(all_trends, LAMBDA t : t.source = "seasonal")]
    /\ pc' = "done"
    /\ UNCHANGED << fut, handled, all_trends, used_sources, unique, idx, ranked,
                    top_trends, categories, exc, call, ret, fetch, adapter, workflow >>

\* scraper.py:511-521 (scrape_date and scraping_duration are clock readings
\* and are left out)
Return ==
    /\ pc = "assemble"
    /\ data' = [sources_used |-> used_sources,
                total_keywords_found |-> Len(all_trends),
                trending_searches |-> top_trends,
                popular_categories |->
                    LET n == Len(categories)
                    IN  sorted_reverse(categories,
                            {ij \in (1..n) \X (1..n) : avg_gt(categories[ij[1]], categories[ij[2]])}),
                seasonal_trends |-> SelectSeq(top_trends, LAMBDA t : t.source = "seasonal")]
    /\ pc' = "done"
    /\ UNCHANGED << fut, handled, all_trends, used_sources, unique, idx, ranked,
                    top_trends, categories, exc, call, ret, fetch, adapter, workflow >>

Next ==
    \/ Submit
    \/ \E name \in SourceNames : TaskReturn(name)
    \/ \E name \in SourceNames : TaskRaise(name)
    \/ \E name \in SourceNames : HandleFuture(name)
    \/ GlobalTimeout
    \/ ShutdownDone
    \/ AppendSeasonal
    \/ MergeStep
    \/ Rank
    \/ BuildCategories
    \/ Return

Spec == Init /\ [][Next]_vars

(***************************************************************************)
(* Calls of the pure helper _score on bounded inputs                       *)
(***************************************************************************)
\* 'ai': 2 characters, 1 words
skw_ai == <<"a","i">>

\* 'AI Art': 6 characters, 2 words
skw_AI_Art == <<"A","I"," ","A","r","t">>

\* 'ai green': 8 characters, 2 words
skw_ai_green == <<"a","i"," ","g","r","e","e","n">>

\* 'green energy': 12 characters, 2 words
skw_green_energy == <<"g","r","e","e","n"," ","e","n","e","r","g","y">>

\* 'mental health care': 18 characters, 3 words
skw_mental_health_care == <<"m","e","n","t","a","l"," ","h","e","a","l","t","h"," ","c","a","r","e">>

\* 'diversity': 9 characters, 1 words
skw_diversity == <<"d","i","v","e","r","s","i","t","y">>

\* 'yoga': 4 characters, 1 words
skw_yoga == <<"y","o","g","a">>

\* 'renewable energy sustainable farm': 33 characters, 4 words
skw_long33 == <<"r","e","n","e","w","a","b","l","e"," ","e","n","e","r","g","y"," ","s","u","s","t","a","i","n","a","b","l","e"," ","f","a","r","m">>

\* 'digital transformation strategy consulting': 42 characters, 4 words
skw_long42 == <<"d","i","g","i","t","a","l"," ","t","r","a","n","s","f","o","r","m","a","t","i","o","n"," ","s","t","r","a","t","e","g","y"," ","c","o","n","s","u","l","t","i","n","g">>

\* 'business team meeting room corporate office lobby': 49 characters, 7 words
skw_long49 == <<"b","u","s","i","n","e","s","s"," ","t","e","a","m"," ","m","e","e","t","i","n","g"," ","r","o","o","m"," ","c","o","r","p","o","r","a","t","e"," ","o","f","f","i","c","e"," ","l","o","b","b","y">>

\* 'family home interior design': 27 characters, 4 words
skw_four_words == <<"f","a","m","i","l","y"," ","h","o","m","e"," ","i","n","t","e","r","i","o","r"," ","d","e","s","i","g","n">>

ScoreKeywords ==
    { skw_ai, skw_AI_Art, skw_ai_green, skw_green_energy, skw_mental_health_care, skw_diversity,
      skw_yoga, skw_long33, skw_long42, skw_long49, skw_four_words,
      kw_remote_work, kw_Remote_Work, kw_len51 }

\* the five sources of the base table and one that is not in it
ScoreSources ==
    {"pexels_api", "unsplash_api", "unsplash_topics", "pytrends", "seasonal", "unknown"}

ScoreInit ==
    /\ CollectInit
    /\ workflow = NoWorkflow
    /\ \E kw \in ScoreKeywords, s \in ScoreSources, j \in Jitter :
          call = [fn |-> "_score", keyword |-> kw, source |-> s, jitter |-> j]
    /\ ret = NoRet
    /\ fetch = NoFetch
    /\ adapter = NoAdapter

ScoreCall ==
    /\ call.fn = "_score"
    /\ ~ret.done
    /\ ret' = [done |-> TRUE, value |-> _score(call.keyword, call.source, call.jitter)]
    /\ UNCHANGED << pc, fut, handled, all_trends, used_sources, unique, idx, ranked,
                    top_trends, categories, data, exc, call, fetch, adapter, workflow >>

ScoreNext == ScoreCall

ScoreSpec == ScoreInit /\ [][ScoreNext]_vars

(***************************************************************************)
(* The source adapters (scraper.py:225-396).  One run is one call of an    *)
(* adapter: its loop over the seeds or topic pages, then the shuffle and   *)
(* the cut to limit_terms.                                                 *)
(***************************************************************************)
\* the number of leading seeds (or topic pages) of a run that the provider
\* answers with data; the later ones fail
NetUp == 2

pexels_seeds ==
    << <<"b","u","s","i","n","e","s","s">>,
       <<"t","e","c","h","n","o","l","o","g","y">>,
       <<"n","a","t","u","r","e">>,
       <<"p","e","o","p","l","e">>,
       <<"f","o","o","d">>,
       <<"e","d","u","c","a","t","i","o","n">>,
       <<"m","e","d","i","c","a","l">>,
       <<"s","t","a","r","t","u","p">>,
       <<"a","i">> >>

unsplash_seeds ==
    << <<"b","u","s","i","n","e","s","s">>,
       <<"t","e","c","h","n","o","l","o","g","y">>,
       <<"a","i">>,
       <<"p","e","o","p","l","e">>,
       <<"p","o","r","t","r","a","i","t">>,
       <<"e","d","u","c","a","t","i","o","n">>,
       <<"h","e","a","l","t","h","y"," ","f","o","o","d">>,
       <<"n","a","t","u","r","e">>,
       <<"3","d"," ","r","e","n","d","e","r">> >>

topic_urls ==
    << "https://unsplash.com/t/nature",
       "https://unsplash.com/t/business-work",
       "https://unsplash.com/t/people",
       "https://unsplash.com/t/wallpapers",
       "https://unsplash.com/t/technology",
       "https://unsplash.com/t/architecture-interior" >>

pytrends_seeds ==
    << <<"a","r","t","i","f","i","c","i","a","l"," ","i","n","t","e","l","l","i","g","e","n","c","e">>,
       <<"b","u","s","i","n","e","s","s">>,
       <<"h","e","a","l","t","h","y"," ","f","o","o","d">>,
       <<"n","a","t","u","r","e">>,
       <<"e","d","u","c","a","t","i","o","n">>,
       <<"w","e","l","l","n","e","s","s">>,
       <<"3","d"," ","r","e","n","d","e","r">> >>

\* the loop of each adapter, by the source label of its records
seeds(src) ==
    CASE src = "pexels_api" -> pexels_seeds
      [] src = "unsplash_api" -> unsplash_seeds
      [] src = "unsplash_topics" -> topic_urls
      [] src = "pytrends" -> pytrends_seeds

\* list(kws)[:5], list(kws)[:6], list(kws)[:10]
PexelsCap == 5

UnsplashCap == 6

TopicsCap == 10

cap(src) ==
    CASE src = "pexels_api" -> PexelsCap
      [] src = "unsplash_api" -> UnsplashCap
      [] src = "unsplash_topics" -> TopicsCap

\* rising.head(6)
RisingRows == 6

\* limit_terms: int = 30
DefaultLimit == 30

AdapterFns == {"source_pexels_api", "source_unsplash_api_or_topics", "source_pytrends"}

LimitTerms == {0, 1, 2, DefaultLimit}

\* the jitter _score draws, the same for the records of one seed
JitterSample == {-2, 2}

\* n keywords as _extract_keywords returns them: lower case, tokens of two
\* characters or more, pairwise different, none of them a seed
extracted(n) == [k \in 1..n |-> kw_trend \o << LowerAlpha[k] >>]

\* the records appended for the keywords kws
records(kws, src, jitter) == [k \in 1..Len(kws) |-> TrendRecord(kws[k], src, jitter)]

reversed(xs) == [k \in 1..Len(xs) |-> xs[Len(xs) + 1 - k]]

rotated(xs, r) == [k \in 1..Len(xs) |-> xs[((k - 1 + r) % Len(xs)) + 1]]

\* random.shuffle(trends): the orders of the model are the list as it is,
\* its reversal and its rotations
shuffled(xs) == {xs, reversed(xs)} \cup {rotated(xs, r) : r \in 1..(Len(xs) - 1)}

AdapterInit ==
    /\ CollectInit
    /\ workflow = NoWorkflow
    /\ call = NoCall
    /\ ret = NoRet
    /\ fetch = NoFetch
    /\ \E fn \in AdapterFns, available \in BOOLEAN, limit_terms \in LimitTerms :
          adapter = [fn |-> fn, available |-> available, limit_terms |-> limit_terms,
                     pc |-> "call", src |-> "", i |-> 0, trends |-> << >>, result |-> << >>]

\* the head of the adapter: without the credential source_pexels_api returns
\* [], source_unsplash_api_or_topics takes the HTML path, and without the
\* pytrends library source_pytrends returns []
AdapterEnter ==
    /\ adapter.pc = "call"
    /\ adapter' =
          CASE adapter.fn = "source_pexels_api" ->
                  IF ~adapter.available
                  THEN [adapter EXCEPT !.pc = "returned", !.result = << >>]
                  ELSE [adapter EXCEPT !.pc = "loop", !.src = "pexels_api", !.i = 1]
            [] adapter.fn = "source_unsplash_api_or_topics" ->
                  IF adapter.available
                  THEN [adapter EXCEPT !.pc = "loop", !.src = "unsplash_api", !.i = 1]
                  ELSE [adapter EXCEPT !.pc = "loop", !.src = "unsplash_topics", !.i = 1]
            [] adapter.fn = "source_pytrends" ->
                  IF ~adapter.available
                  THEN [adapter EXCEPT !.pc = "returned", !.result = << >>]
                  ELSE [adapter EXCEPT !.pc = "init", !.src = "pytrends"]
    /\ UNCHANGED << collect_vars, call, ret, fetch, workflow >>

\* one seed of source_pexels_api or _unsplash_api answered with status 200
\* and JSON: kws is the seed and the keywords extracted from the texts, in
\* the order of the set (the seed first or last), cut to the cap
ApiSeedData ==
    /\ adapter.pc = "loop"
    /\ adapter.src \in {"pexels_api", "unsplash_api"}
    /\ adapter.i <= Len(seeds(adapter.src))
    /\ adapter.i <= NetUp
    /\ \E n \in {0, cap(adapter.src)}, seed_first \in BOOLEAN, jitter \in JitterSample :
          LET q == seeds(adapter.src)[adapter.i]
              kws == IF seed_first THEN << q >> \o extracted(n) ELSE extracted(n) \o << q >>
          IN  adapter' = [adapter EXCEPT
                  !.trends = @ \o records(take(kws, cap(adapter.src)), adapter.src, jitter),
                  !.i = @ + 1]
    /\ UNCHANGED << collect_vars, call, ret, fetch, workflow >>

\* the seed answered with a status other than 200: continue
ApiSeedStatus ==
    /\ adapter.pc = "loop"
    /\ adapter.src \in {"pexels_api", "unsplash_api"}
    /\ adapter.i <= Len(seeds(adapter.src))
    /\ adapter' = [adapter EXCEPT !.i = @ + 1]
    /\ UNCHANGED << collect_vars, call, ret, fetch, workflow >>

\* requests.get or r.json() raised, or the JSON was not of the expected
\* shape: except Exception of the seed
ApiSeedError ==
    /\ adapter.pc = "loop"
    /\ adapter.src \in {"pexels_api", "unsplash_api"}
    /\ adapter.i <= Len(seeds(adapter.src))
    /\ adapter' = [adapter EXCEPT !.i = @ + 1]
    /\ UNCHANGED << collect_vars, call, ret, fetch, workflow >>

\* _unsplash_topics_html: self._fetch(url) returned None
TopicsFetchNone ==
    /\ adapter.pc = "loop"
    /\ adapter.src = "unsplash_topics"
    /\ adapter.i <= Len(topic_urls)
    /\ adapter' = [adapter EXCEPT !.i = @ + 1]
    /\ UNCHANGED << collect_vars, call, ret, fetch, workflow >>

\* self._fetch(url) raised: the loop has no try, the exception leaves the adapter
TopicsFetchRaises ==
    /\ adapter.pc = "loop"
    /\ adapter.src = "unsplash_topics"
    /\ adapter.i <= Len(topic_urls)
    /\ adapter' = [adapter EXCEPT !.pc = "raised"]
    /\ UNCHANGED << collect_vars, call, ret, fetch, workflow >>

\* soup.select(sel), el.get or el.get_text raised: no try either
TopicsSelectRaises ==
    /\ adapter.pc = "loop"
    /\ adapter.src = "unsplash_topics"
    /\ adapter.i <= Len(topic_urls)
    /\ adapter.i <= NetUp
    /\ adapter' = [adapter EXCEPT !.pc = "raised"]
    /\ UNCHANGED << collect_vars, call, ret, fetch, workflow >>

\* the page was fetched and its headings and anchors gave n keywords
TopicsPage ==
    /\ adapter.pc = "loop"
    /\ adapter.src = "unsplash_topics"
    /\ adapter.i <= Len(topic_urls)
    /\ adapter.i <= NetUp
    /\ \E n \in {0, 1, TopicsCap + 1}, jitter \in JitterSample :
          adapter' = [adapter EXCEPT
              !.trends = @ \o records(take(extracted(n), TopicsCap), "unsplash_topics", jitter),
              !.i = @ + 1]
    /\ UNCHANGED << collect_vars, call, ret, fetch, workflow >>

\* source_pytrends: TrendReq(...) raised, the outer except returns []
PytrendsInitError ==
    /\ adapter.pc = "init"
    /\ adapter' = [adapter EXCEPT !.pc = "returned", !.result = << >>]
    /\ UNCHANGED << collect_vars, call, ret, fetch, workflow >>

PytrendsInit ==
    /\ adapter.pc = "init"
    /\ adapter' = [adapter EXCEPT !.pc = "loop", !.i = 1]
    /\ UNCHANGED << collect_vars, call, ret, fetch, workflow >>

\* one seed of source_pytrends: no rising queries, or rows of them, of which
\* the first six are read; each row gives one keyword here
PytrendsSeedData ==
    /\ adapter.pc = "loop"
    /\ adapter.src = "pytrends"
    /\ adapter.i <= Len(pytrends_seeds)
    /\ adapter.i <= NetUp
    /\ \E rows \in {0, 1, RisingRows + 1}, jitter \in JitterSample :
          adapter' = [adapter EXCEPT
              !.trends = @ \o records(take(extracted(rows), RisingRows), "pytrends", jitter),
              !.i = @ + 1]
    /\ UNCHANGED << collect_vars, call, ret, fetch, workflow >>

\* build_payload or related_queries raised: except Exception of the seed
PytrendsSeedError ==
    /\ adapter.pc = "loop"
    /\ adapter.src = "pytrends"
    /\ adapter.i <= Len(pytrends_seeds)
    /\ adapter' = [adapter EXCEPT !.i = @ + 1]
    /\ UNCHANGED << collect_vars, call, ret, fetch, workflow >>

AdapterReturnFallsThrough ==
    /\ adapter.pc = "loop"
    /\ adapter.i > Len(seeds(adapter.src))
    /\ IF adapter.src = "unsplash_api" /\ adapter.trends = << >>
       THEN adapter' = [adapter EXCEPT !.src = "unsplash_topics", !.i = 1]
       ELSE \E order \in shuffled(adapter.trends) :
               adapter' = [adapter EXCEPT !.pc = "returned",
                                          !.result = take(order, adapter.limit_terms)]
    /\ UNCHANGED << collect_vars, call, ret, fetch, workflow >>

\* random.shuffle(trends); return trends[:limit_terms]
AdapterReturn ==
    /\ adapter.pc = "loop"
    /\ adapter.i > Len(seeds(adapter.src))
    /\ \E order \in shuffled(adapter.trends) :
          adapter' = [adapter EXCEPT !.pc = "returned",
                                     !.result = take(order, adapter.limit_terms)]
    /\ UNCHANGED << collect_vars, call, ret, fetch, workflow >>

AdapterNext ==
    \/ AdapterEnter
    \/ ApiSeedData
    \/ ApiSeedStatus
    \/ ApiSeedError
    \/ TopicsFetchNone
    \/ TopicsFetchRaises
    \/ TopicsSelectRaises
    \/ TopicsPage
    \/ PytrendsInitError
    \/ PytrendsInit
    \/ PytrendsSeedData
    \/ PytrendsSeedError
    \/ AdapterReturn

AdapterSpec == AdapterInit /\ [][AdapterNext]_vars

(***************************************************************************)
(* TrendScraper._fetch (scraper.py:93-129).  A GET ends with a response    *)
(* or with a requests.RequestException; the response carries its status,   *)
(* its content-type header, its text, the element names html.parser finds  *)
(* in the text, and whether BeautifulSoup rejects the markup.              *)
(***************************************************************************)
retry_status == {429, 500, 502, 503, 504}

is_retry_status_or_404(status) == status \in retry_status \cup {404}

is_retry_status(status) == status \in retry_status

\* max_tries: int = 3
DefaultMaxTries == 3

\* resp.text[:2000]
HeadLen == 2000

text_html == <<"t","e","x","t","/","h","t","m","l">>

application_xhtml == <<"a","p","p","l","i","c","a","t","i","o","n","/","x","h","t","m","l","+","x","m","l">>

bot_markers ==
    << <<"e","n","a","b","l","e"," ","j","a","v","a","s","c","r","i","p","t">>,
       <<"c","l","o","u","d","f","l","a","r","e">>,
       <<"a","k","a","m","a","i">>,
       <<"c","f","-","c","h","l","-","b","y","p","a","s","s">> >>

dom_tags == {"a", "img", "h1", "h2", "h3"}

\* ct = (resp.headers.get("content-type") or "").lower(), then the two tests
is_html(content_type) ==
    LET ct == lower(content_type)
    IN  contains(ct, text_html) \/ contains(ct, application_xhtml)

\* head = resp.text[:2000].lower(); any(k in head for k in [...])
bot_guard(text) ==
    LET head == lower(take(text, HeadLen))
    IN  \E k \in 1..Len(bot_markers) : contains(head, bot_markers[k])

\* time.sleep(0.8 * attempt) and time.sleep(0.6 * attempt), in tenths of a second
sleep_after_status(attempt) == 8 * attempt

sleep_after_exception(attempt) == 6 * attempt

ct_html_utf8 == <<"t","e","x","t","/","h","t","m","l",";"," ","c","h","a","r","s","e","t","=","u","t","f","-","8">>

ct_Text_HTML == <<"T","e","x","t","/","H","T","M","L">>

ct_json == <<"a","p","p","l","i","c","a","t","i","o","n","/","j","s","o","n">>

text_anchor == <<"<","a",">","y","o","g","a","<","/","a",">">>

text_heading == <<"<","h","2",">","y","o","g","a","<","/","h","2",">">>

text_paragraph == <<"<","p",">","y","o","g","a","<","/","p",">">>

text_Cloudflare == <<"<","h","1",">","C","l","o","u","d","f","l","a","r","e","<","/","h","1",">">>

text_Enable_JavaScript == <<"<","a",">","E","n","a","b","l","e"," ","J","a","v","a","S","c","r","i","p","t","<","/","a",">">>

text_rejected == <<"<","a",">","<","!","[","y","o","g","a">>

\* a page whose marker "akamai" starts at character 1996 and ends at 2001
text_late_marker ==
    <<"<","a",">">> \o [i \in 1..(HeadLen - 8) |-> "x"] \o <<"a","k","a","m","a","i","<","/","a",">">>

Response(status, content_type, text, tags, parser) ==
    [kind |-> "response", status |-> status, content_type |-> content_type,
     text |-> text, tags |-> tags, parser |-> parser]

\* what one GET of the model can end with, by name
Outcomes ==
    [page |-> Response(200, ct_html_utf8, text_anchor, {"a"}, "ok"),
     xhtml |-> Response(200, application_xhtml, text_heading, {"h2"}, "ok"),
     upper_ct |-> Response(200, ct_Text_HTML, text_anchor, {"a"}, "ok"),
     late_marker |-> Response(200, ct_html_utf8, text_late_marker, {"a"}, "ok"),
     json |-> Response(200, ct_json, text_anchor, {"a"}, "ok"),
     no_ct |-> Response(200, << >>, text_anchor, {"a"}, "ok"),
     cloudflare |-> Response(200, ct_html_utf8, text_Cloudflare, {"h1"}, "ok"),
     javascript |-> Response(200, ct_html_utf8, text_Enable_JavaScript, {"a"}, "ok"),
     empty_dom |-> Response(200, ct_html_utf8, text_paragraph, {"p"}, "ok"),
     rejected |-> Response(200, ct_html_utf8, text_rejected, {}, "raises"),
     s204 |-> Response(204, << >>, << >>, {}, "ok"),
     s404 |-> Response(404, ct_html_utf8, text_anchor, {"a"}, "ok"),
     s429 |-> Response(429, ct_html_utf8, text_anchor, {"a"}, "ok"),
     s500 |-> Response(500, ct_html_utf8, text_anchor, {"a"}, "ok"),
     s502 |-> Response(502, ct_html_utf8, text_anchor, {"a"}, "ok"),
     s503 |-> Response(503, ct_html_utf8, text_anchor, {"a"}, "ok"),
     s504 |-> Response(504, ct_html_utf8, text_anchor, {"a"}, "ok"),
     conn_error |-> [kind |-> "RequestException"]]

\* "continue" and the end of the except block: the next attempt
retry_uncounted(f, name, delay) ==
    [f EXCEPT !.log = Append(@, name), !.slept = Append(@, delay)]

retry(f, name, delay) ==
    [f EXCEPT !.log = Append(@, name), !.slept = Append(@, delay), !.attempt = @ + 1]

\* "return None" and "return soup"
stop(f, name, result) ==
    [f EXCEPT !.log = Append(@, name), !.pc = "returned", !.result = result]

\* one iteration of "for attempt in range(1, max_tries + 1)"
attempt_step(f, name) ==
    LET o == Outcomes[name]
    IN  IF o.kind = "RequestException" THEN retry(f, name, sleep_after_exception(f.attempt))
        ELSE IF is_retry_status(o.status) THEN retry(f, name, sleep_after_status(f.attempt))
        ELSE IF o.status # 200 THEN stop(f, name, "None")
        ELSE IF ~is_html(o.content_type) THEN stop(f, name, "None")
        ELSE IF bot_guard(o.text) THEN stop(f, name, "None")
        ELSE IF o.parser = "raises" THEN [f EXCEPT !.log = Append(@, name), !.pc = "raised"]
        ELSE IF o.tags \cap dom_tags = {} THEN stop(f, name, "None")
        ELSE stop(f, name, "soup")

FetchInit ==
    /\ CollectInit
    /\ workflow = NoWorkflow
    /\ call = NoCall
    /\ ret = NoRet
    /\ adapter = NoAdapter
    /\ \E max_tries \in 0..DefaultMaxTries :
          fetch = [pc |-> "loop", max_tries |-> max_tries, attempt |-> 1, log |-> << >>,
                   slept |-> << >>, result |-> "pending"]

FetchAttempt ==
    /\ fetch.pc = "loop"
    /\ fetch.attempt <= fetch.max_tries
    /\ \E name \in DOMAIN Outcomes : fetch' = attempt_step(fetch, name)
    /\ UNCHANGED << collect_vars, call, ret, adapter, workflow >>

\* the loop ran out of attempts: the final "return None"
FetchExhausted ==
    /\ fetch.pc = "loop"
    /\ fetch.attempt > fetch.max_tries
    /\ fetch' = [fetch EXCEPT !.pc = "returned", !.result = "None"]
    /\ UNCHANGED << collect_vars, call, ret, adapter, workflow >>

FetchNext ==
    \/ FetchAttempt
    \/ FetchExhausted

FetchSpec == FetchInit /\ [][FetchNext]_vars

(***************************************************************************)
(* Calls of source_seasonal for every month and bounded rolls              *)
(***************************************************************************)
\* datetime.now().month
AllMonths == 1..12

\* the six values of random.randint(70, 88): one value for all buckets, or
\* the rolls of the collect() runs
RollSamples ==
    {[b \in 1..Len(buckets) |-> v] : v \in SeasonalLo..SeasonalHi} \cup SeasonalRolls

SeasonalInit ==
    /\ CollectInit
    /\ workflow = NoWorkflow
    /\ \E month \in AllMonths, rolls \in RollSamples :
          call = [fn |-> "source_seasonal", month |-> month, rolls |-> rolls]
    /\ ret = NoRet
    /\ fetch = NoFetch
    /\ adapter = NoAdapter

SeasonalCall ==
    /\ call.fn = "source_seasonal"
    /\ ~ret.done
    /\ ret' = [done |-> TRUE, value |-> source_seasonal(call.month, call.rolls)]
    /\ UNCHANGED << collect_vars, call, fetch, adapter, workflow >>

SeasonalNext == SeasonalCall

SeasonalSpec == SeasonalInit /\ [][SeasonalNext]_vars

(***************************************************************************)
(* _extract_keywords (scraper.py:137-167): tokens, bigrams and trigrams of *)
(* a text, shuffled and cut to hard_cap.                                   *)
(***************************************************************************)
_STOP_WORDS ==
    { <<"t","h","e">>,
      <<"a">>,
      <<"a","n">>,
      <<"a","n","d">>,
      <<"o","r">>,
      <<"i","n">>,
      <<"o","n">>,
      <<"f","o","r">>,
      <<"o","f">>,
      <<"w","i","t","h">>,
      <<"b","y">>,
      <<"t","o">>,
      <<"i","s">>,
      <<"a","r","e">>,
      <<"s","t","o","c","k">>,
      <<"p","h","o","t","o">>,
      <<"i","m","a","g","e">>,
      <<"i","m","a","g","e","s">>,
      <<"p","i","c","t","u","r","e","s">>,
      <<"d","o","w","n","l","o","a","d">>,
      <<"f","r","e","e">>,
      <<"h","d">> }

\* the characters [\w\s\-\&/] keeps
kept_char(c) ==
    \/ \E i \in 1..26 : c = LowerAlpha[i] \/ c = UpperAlpha[i]
    \/ c \in {"0", "1", "2", "3", "4", "5", "6", "7", "8", "9"}
    \/ c = "_"
    \/ isspace(c)
    \/ c \in {"-", "&", "/"}

\* re.sub(r'[^\w\s\-\&/]', ' ', s)
sub_symbols(s) == [i \in 1..Len(s) |-> IF kept_char(s[i]) THEN s[i] ELSE " "]

\* the characters of s at the positions keep, in order
at_positions(s, keep) ==
    [n \in 1..Cardinality(keep) |->
        s[CHOOSE i \in keep : Cardinality({j \in keep : j < i}) = n - 1]]

\* re.sub(r'\s+', ' ', s): every run of whitespace becomes one space
collapse_spaces(s) ==
    LET blanked == [i \in 1..Len(s) |-> IF isspace(s[i]) THEN " " ELSE s[i]]
    IN  at_positions(blanked, {i \in 1..Len(s) : ~isspace(s[i]) \/ i = 1 \/ ~isspace(s[i - 1])})

\* str.split(): the maximal runs of non-whitespace characters, in order
split(s) ==
    LET starts == {i \in 1..Len(s) : ~isspace(s[i]) /\ (i = 1 \/ isspace(s[i - 1]))}
        stop_of(i) == CHOOSE j \in i..Len(s) :
                          /\ \A k \in i..j : ~isspace(s[k])
                          /\ j = Len(s) \/ isspace(s[j + 1])
    IN  [n \in 1..Cardinality(starts) |->
            LET i == CHOOSE i \in starts : Cardinality({j \in starts : j < i}) = n - 1
            IN  SubSeq(s, i, stop_of(i))]

\* [t for t in text.split() if t not in self._STOP_WORDS and len(t) >= 2]
toks_any_length(text) == SelectSeq(split(text), LAMBDA w : w \notin _STOP_WORDS)

toks(text) == SelectSeq(split(text), LAMBDA w : w \notin _STOP_WORDS /\ Len(w) >= 2)

\* f"{w1} {w2}"
phrase2(w1, w2) == w1 \o << " " >> \o w2

\* f"{w1} {w2} {w3}"
phrase3(w1, w2, w3) == w1 \o << " " >> \o w2 \o << " " >> \o w3

\* the set out: the tokens, the bigrams and the trigrams of 3 to 40 characters
out(ts) ==
    {ts[i] : i \in 1..Len(ts)}
    \cup {phrase2(ts[i], ts[i + 1]) :
            i \in {i \in 1..(Len(ts) - 1) :
                     ts[i] \notin _STOP_WORDS /\ ts[i + 1] \notin _STOP_WORDS}}
    \cup {phrase3(ts[i], ts[i + 1], ts[i + 2]) :
            i \in {i \in 1..(Len(ts) - 2) :
                     /\ \A w \in {ts[i], ts[i + 1], ts[i + 2]} : w \notin _STOP_WORDS
                     /\ 3 <= Len(phrase3(ts[i], ts[i + 1], ts[i + 2]))
                     /\ Len(phrase3(ts[i], ts[i + 1], ts[i + 2])) <= 40}}

\* list(out): the members of the set in the order of its iteration
RECURSIVE list(_)
list(S) == IF S = {} THEN << >> ELSE LET x == CHOOSE x \in S : TRUE IN << x >> \o list(S \ {x})

\* the lists _extract_keywords(text, hard_cap) can return: res[:hard_cap] for
\* the orders random.shuffle(res) gives (those of shuffled)
_extract_keywords(text, hard_cap) ==
    IF text = << >> THEN {<< >>}
    ELSE LET cleaned == strip(collapse_spaces(sub_symbols(lower(text))))
         IN  IF cleaned = << >> THEN {<< >>}
             ELSE {take(res, hard_cap) : res \in shuffled(list(out(toks(cleaned))))}

(***************************************************************************)
(* Calls of _extract_keywords on bounded inputs                            *)
(***************************************************************************)
\* '': the empty text
\* '?!.': punctuation only: nothing is left after the substitution
\* 'a & x': no token of two characters
\* 'HD Free\tPhoto': stop-words only, in upper case and tab separated
\* 'The Cat': one surviving token
\* 'sunset of beach': two tokens around a stop-word
\* 'red red red': one token three times
\* '  ai, co-op & 3d/art now!  ': four tokens with -, /, & and punctuation
\* 'environmental sustainability infrastructure': a trigram of 43 characters
\* 'city_park at night': an underscore and a two-character token
ExtractTexts ==
    { <<>>,
      <<"?","!",".">>,
      <<"a"," ","&"," ","x">>,
      <<"H","D"," ","F","r","e","e","\t","P","h","o","t","o">>,
      <<"T","h","e"," ","C","a","t">>,
      <<"s","u","n","s","e","t"," ","o","f"," ","b","e","a","c","h">>,
      <<"r","e","d"," ","r","e","d"," ","r","e","d">>,
      <<" "," ","a","i",","," ","c","o","-","o","p"," ","&"," ","3","d","/","a","r","t"," ","n","o","w","!"," "," ">>,
      <<"e","n","v","i","r","o","n","m","e","n","t","a","l"," ","s","u","s","t","a","i","n","a","b","i","l","i","t","y"," ","i","n","f","r","a","s","t","r","u","c","t","u","r","e">>,
      <<"c","i","t","y","_","p","a","r","k"," ","a","t"," ","n","i","g","h","t">> }

\* hard_cap: 10 and 20 are caps of the adapters, 200 is the default
HardCaps == {0, 1, 2, 10, 20, 200}

ExtractInit ==
    /\ CollectInit
    /\ workflow = NoWorkflow
    /\ \E text \in ExtractTexts, hard_cap \in HardCaps :
          call = [fn |-> "_extract_keywords", text |-> text, hard_cap |-> hard_cap]
    /\ ret = NoRet
    /\ fetch = NoFetch
    /\ adapter = NoAdapter

ExtractCall ==
    /\ call.fn = "_extract_keywords"
    /\ ~ret.done
    /\ \E res \in _extract_keywords(call.text, call.hard_cap) :
          ret' = [done |-> TRUE, value |-> res]
    /\ UNCHANGED << collect_vars, call, fetch, adapter, workflow >>

ExtractNext == ExtractCall

ExtractSpec == ExtractInit /\ [][ExtractNext]_vars

(***************************************************************************)
(* Calls of _categorize on bounded inputs: keywords holding one marker of  *)
(* every category of a set, the last category of the rule order first      *)
(***************************************************************************)
\* str.upper()
upper(s) ==
    [i \in 1..Len(s) |->
        IF \E n \in 1..26 : LowerAlpha[n] = s[i]
        THEN UpperAlpha[CHOOSE n \in 1..26 : LowerAlpha[n] = s[i]]
        ELSE s[i]]

\* one marker of each rule, none of them holding a marker of another rule
marker_words ==
    << <<"c","l","o","u","d">>, <<"o","f","f","i","c","e">>, <<"d","o","c","t","o","r">>, <<"s","c","h","o","o","l">>, <<"r","e","c","i","p","e">>, <<"f","o","r","e","s","t">>, <<"y","o","g","a">> >>

RECURSIVE words_of(_, _)
words_of(picked, n) ==
    IF n = 0 THEN << >>
    ELSE IF n \in picked
         THEN marker_words[n] \o (IF \E m \in picked : m < n THEN << " " >> ELSE << >>)
                  \o words_of(picked, n - 1)
         ELSE words_of(picked, n - 1)

\* 'research' and 'startup' hold the marker 'ar', 'teacher' the marker 'tea'
CategorizeKeywords ==
    {words_of(picked, 7) : picked \in SUBSET (1..7)}
      \cup {upper(words_of(picked, 7)) : picked \in SUBSET (1..7)}
      \cup { <<"r","e","s","e","a","r","c","h">>,
           <<"s","t","a","r","t","u","p">>,
           <<"t","e","a","c","h","e","r">>,
           <<"q","u","i","z">>,
           <<"W","e","e","k","e","n","d"," ","T","r","i","p">> }

CategorizeInit ==
    /\ CollectInit
    /\ workflow = NoWorkflow
    /\ \E kw \in CategorizeKeywords :
          call = [fn |-> "_categorize", keyword |-> kw]
    /\ ret = NoRet
    /\ fetch = NoFetch
    /\ adapter = NoAdapter

CategorizeCall ==
    /\ call.fn = "_categorize"
    /\ ~ret.done
    /\ ret' = [done |-> TRUE, value |-> _categorize(call.keyword)]
    /\ UNCHANGED << collect_vars, call, fetch, adapter, workflow >>

CategorizeNext == CategorizeCall

CategorizeSpec == CategorizeInit /\ [][CategorizeNext]_vars

(***************************************************************************)
(* daily_workflow and create_workflow_report (app.py:61-222, 359-417).     *)
(* workflow holds the dict workflow_report (steps_completed, errors as a   *)
(* count, the keys of metrics, success), the three files the run writes    *)
(* and the value daily_workflow returns.                                   *)
(***************************************************************************)
step_order ==
    << "health_check", "scraping", "keyword_processing", "image_generation",
       "metadata_creation", "upload_preparation", "report_generation", "cleanup" >>

\* json.dump(workflow_report, f): the file holds the dict as it is now
dumped(w) == [written |-> TRUE, success |-> w.success, steps_completed |-> w.steps_completed]

WorkflowInit ==
    /\ CollectInit
    /\ call = NoCall
    /\ ret = NoRet
    /\ fetch = NoFetch
    /\ adapter = NoAdapter
    /\ \E scraper \in BOOLEAN, generator \in BOOLEAN, metadata \in BOOLEAN,
          auto_cleanup \in BOOLEAN, images \in {0, 2} :
          workflow = [NoWorkflow EXCEPT !.pc = "health_check", !.scraper = scraper,
                                        !.generator = generator, !.metadata = metadata,
                                        !.auto_cleanup = auto_cleanup, !.images = images]

\* Step 1: run_health_check(); the step is recorded, then a failed check raises
HealthCheck ==
    /\ workflow.pc = "health_check"
    /\ \E overall_status \in BOOLEAN :
          workflow' = [workflow EXCEPT
              !.steps_completed = Append(@, "health_check"),
              !.pc = IF overall_status THEN "scraping" ELSE "except"]
    /\ UNCHANGED << collect_vars, call, ret, fetch, adapter >>

\* Step 2: scrape_adobe_trends() and trends_data.json, or the fallback data
Scraping ==
    /\ workflow.pc = "scraping"
    /\ workflow' = [workflow EXCEPT
          !.metrics = IF workflow.scraper THEN @ \cup {"sources_scraped", "trends_found"} ELSE @,
          !.steps_completed = Append(@, "scraping"),
          !.pc = "keyword_processing"]
    /\ UNCHANGED << collect_vars, call, ret, fetch, adapter >>

\* Step 3: process_keywords_enhanced and processed_keywords.json
KeywordProcessing ==
    /\ workflow.pc = "keyword_processing"
    /\ workflow' = [workflow EXCEPT
          !.metrics = @ \cup {"keywords_processed"},
          !.steps_completed = Append(@, "keyword_processing"),
          !.pc = "image_generation"]
    /\ UNCHANGED << collect_vars, call, ret, fetch, adapter >>

\* Step 4: generate_images, or create_mock_images
ImageGeneration ==
    /\ workflow.pc = "image_generation"
    /\ workflow' = [workflow EXCEPT
          !.metrics = IF workflow.generator
                      THEN @ \cup {"images_requested", "images_generated",
                                   "ai_generated", "placeholder_generated"}
                      ELSE @,
          !.steps_completed = Append(@, "image_generation"),
          !.pc = "metadata_creation"]
    /\ UNCHANGED << collect_vars, call, ret, fetch, adapter >>

\* Step 5: create_metadata, or create_basic_metadata
MetadataCreation ==
    /\ workflow.pc = "metadata_creation"
    /\ workflow' = [workflow EXCEPT
          !.metrics = IF workflow.metadata /\ workflow.images > 0
                      THEN @ \cup {"metadata_files"} ELSE @,
          !.steps_completed = Append(@, "metadata_creation"),
          !.pc = "upload_preparation"]
    /\ UNCHANGED << collect_vars, call, ret, fetch, adapter >>

\* Step 6: prepare_upload_ready_files
UploadPreparation ==
    /\ workflow.pc = "upload_preparation"
    /\ workflow' = [workflow EXCEPT
          !.metrics = @ \cup {"upload_ready_files"},
          !.steps_completed = Append(@, "upload_preparation"),
          !.pc = "report_generation"]
    /\ UNCHANGED << collect_vars, call, ret, fetch, adapter >>

\* create_workflow_report(workflow_report, output_dir, generated_images): adds
\* image_analysis when there are images, writes workflow_report.json, then
\* summary.txt; written is "both", "json" (the summary could not be written)
\* or "none" (the report could not be written)
create_workflow_report(w, written) ==
    LET analysed == [w EXCEPT !.image_analysis = w.images > 0]
    IN  [analysed EXCEPT
            !.workflow_report_json = IF written \in {"json", "both"} THEN dumped(analysed) ELSE @,
            !.summary_txt = IF written = "both" THEN dumped(analysed) ELSE @]

\* Step 7: the report is written, then the step is recorded; an open() or
\* json.dump that raises leaves the step unrecorded
ReportGeneration ==
    /\ workflow.pc = "report_generation"
    /\ \E written \in {"both", "json", "none"} :
          workflow' =
              IF written = "both"
              THEN [create_workflow_report(workflow, written) EXCEPT
                       !.steps_completed = Append(@, "report_generation"),
                       !.pc = "cleanup"]
              ELSE [create_workflow_report(workflow, written) EXCEPT !.pc = "except"]
    /\ UNCHANGED << collect_vars, call, ret, fetch, adapter >>

\* Step 8 and the end of the try block: cleanup_old_data, success = True,
\* return True
Cleanup ==
    /\ workflow.pc = "cleanup"
    /\ workflow' = [workflow EXCEPT
          !.metrics = IF workflow.auto_cleanup THEN @ \cup {"files_cleaned"} ELSE @,
          !.steps_completed = Append(@, "cleanup"),
          !.success = TRUE,
          !.result = "True",
          !.pc = "returned"]
    /\ UNCHANGED << collect_vars, call, ret, fetch, adapter >>

\* the function a step calls, or the write of its file, raises before the
\* step is recorded
StepRaises ==
    /\ workflow.pc \in {"health_check", "scraping", "keyword_processing", "image_generation",
                        "metadata_creation", "upload_preparation", "cleanup"}
    /\ workflow' = [workflow EXCEPT !.pc = "except"]
    /\ UNCHANGED << collect_vars, call, ret, fetch, adapter >>

\* except Exception: the error is recorded, error_report.json is written if
\* it can be, and daily_workflow returns False
ExceptHandler ==
    /\ workflow.pc = "except"
    /\ \E saved \in BOOLEAN :
          LET failed == [workflow EXCEPT !.errors = @ + 1, !.success = FALSE]
          IN  workflow' = [failed EXCEPT
                  !.error_report_json = IF saved THEN dumped(failed) ELSE @,
                  !.result = "False",
                  !.pc = "returned"]
    /\ UNCHANGED << collect_vars, call, ret, fetch, adapter >>

WorkflowNext ==
    \/ HealthCheck
    \/ Scraping
    \/ KeywordProcessing
    \/ ImageGeneration
    \/ MetadataCreation
    \/ UploadPreparation
    \/ ReportGeneration
    \/ Cleanup
    \/ StepRaises
    \/ ExceptHandler

WorkflowSpec == WorkflowInit /\ [][WorkflowNext]_vars

(***************************************************************************)
(* Properties                                                              *)
(***************************************************************************)
Range(xs) == {xs[i] : i \in 1..Len(xs)}

Returned == pc = "done"

\* the adapter's task ended without a usable list: it raised or returned []
NoContribution(n) == fut[n].state = "FINISHED" /\ (fut[n].raised \/ fut[n].result = << >>)

\* C1 (never-empty): whenever collect() returns, also when every adapter
\* raised or returned nothing, trending_searches holds at least one record
\* and sources_used contains "seasonal".
C1_NeverEmpty ==
    Returned => /\ Len(data.trending_searches) >= 1
                /\ "seasonal" \in Range(data.sources_used)

\* collect() returned although none of the three adapters contributed
C1_Witness ==
    /\ Returned
    /\ \A n \in SourceNames : NoContribution(n)
    /\ \E n \in SourceNames : fut[n].raised
    /\ Len(data.trending_searches) = Len(buckets)

\* C2 (no fault raises out of collect): no run of collect() ends with an
\* exception propagating to the caller.
C2_NoExceptionPropagates == pc # "raised"

\* the length and underscore conditions of the claim, stated on a normalized key
ValidKey(k) ==
    /\ Len(k) >= 3
    /\ Len(k) <= 50
    /\ ~\E i \in 1..(Len(k) - 1) : k[i] = "_" /\ k[i + 1] = "_"

\* the priority order of the claim
ClaimPriority(r) ==
    CASE r.source = "pytrends" -> 9
      [] r.source = "pexels_api" -> 8
      [] r.source = "unsplash_api" -> 7
      [] r.source = "unsplash_topics" -> 6
      [] r.source = "seasonal" -> 4
      [] OTHER -> 0

Beats(t, cur) ==
    \/ t.popularity > cur.popularity
    \/ (t.popularity = cur.popularity /\ ClaimPriority(t) > ClaimPriority(cur))

\* the candidates the merge loop has gone through
Processed == IF pc = "merge" THEN 1..(idx - 1)
             ELSE IF pc \in {"summary", "assemble", "done"} THEN 1..Len(all_trends)
             ELSE {}

\* in every step of the merge loop that meets a stored key, the stored record
\* is replaced exactly if the incoming record beats it
C3_ReplaceRule ==
    (pc = "merge" /\ idx <= Len(all_trends) /\ idx' = idx + 1) =>
        LET t == all_trends[idx]
            k == normalize(t.keyword)
        IN  \A p \in 1..Len(unique) :
                unique[p].key = k /\ ValidKey(k) =>
                    IF Beats(t, unique[p].value)
                    THEN unique' = [unique EXCEPT ![p].value = t] /\ unique' # unique
                    ELSE unique' = unique

\* the survivor of a key is a best candidate of that key
C3_SurvivorIsBest ==
    \A i \in Processed :
        LET k == normalize(all_trends[i].keyword)
        IN  \A p \in 1..Len(unique) :
                unique[p].key = k => ~Beats(all_trends[i], unique[p].value)

\* C3 (dedup correctness): on a collision of normalized keyword the stored
\* record is replaced if and only if the incoming record has strictly higher
\* popularity, or equal popularity and strictly higher source priority; so the
\* survivor of each key has the maximum popularity of the candidates of that
\* key and, among those, the maximum source priority.
C3_DedupCorrect == [](C3_SurvivorIsBest) /\ [][C3_ReplaceRule]_vars

\* collect() returned after a collision that the source priority decided:
\* equal popularity, and the later candidate, of higher priority, survived
C3_Witness ==
    /\ Returned
    /\ \E i, j \in 1..Len(all_trends) :
          /\ i < j
          /\ all_trends[i].popularity = all_trends[j].popularity
          /\ ClaimPriority(all_trends[j]) > ClaimPriority(all_trends[i])
          /\ normalize(all_trends[i].keyword) = normalize(all_trends[j].keyword)
          /\ \E p \in 1..Len(unique) : unique[p].value = all_trends[j]

\* C4 (uniqueness): the dedup key is the trimmed, lower-cased keyword; at
\* every point of the merge pass at most one record is stored per key, and no
\* two records of trending_searches have the same normalized keyword.
C4_OneRecordPerKey ==
    /\ \A p \in 1..Len(unique) : unique[p].key = lower(strip(unique[p].value.keyword))
    /\ \A p, q \in 1..Len(unique) : p # q => unique[p].key # unique[q].key
    /\ Returned =>
          LET ts == data.trending_searches
          IN  Cardinality({lower(strip(ts[i].keyword)) : i \in 1..Len(ts)}) = Len(ts)

\* collect() returned after merging two candidates whose keywords differ as
\* written but have the same normalized form
C4_Witness ==
    /\ Returned
    /\ \E i, j \in 1..Len(all_trends) :
          /\ all_trends[i].keyword # all_trends[j].keyword
          /\ lower(strip(all_trends[i].keyword)) = lower(strip(all_trends[j].keyword))
          /\ ValidKey(lower(strip(all_trends[i].keyword)))

\* number of whitespace-separated words of a keyword
Blank(c) == c = " " \/ c = "\t" \/ c = "\n"

Words(k) == Cardinality({i \in 1..Len(k) : ~Blank(k[i]) /\ (i = 1 \/ Blank(k[i - 1]))})

\* (popularity, word count) of a >= that of b, as a lexicographic pair
KeyGeq(a, b) ==
    \/ a.popularity > b.popularity
    \/ (a.popularity = b.popularity /\ Words(a.keyword) >= Words(b.keyword))

\* C5 (ranking order): trending_searches is sorted descending by the pair
\* (popularity, number of words of the keyword): for every i < j the pair of
\* record i is >= the pair of record j; of two records of equal popularity the
\* one with two words comes before the one with one word.
C5_RankedDescending ==
    Returned =>
        LET ts == data.trending_searches
        IN  \A i \in 1..(Len(ts) - 1) : KeyGeq(ts[i], ts[i + 1])

\* collect() returned a ranking in which a two-word record stands before a
\* one-word record of the same popularity that entered the merge earlier
C5_Witness ==
    /\ Returned
    /\ LET ts == data.trending_searches
       IN  \E i, j \in 1..Len(ts) :
              /\ i < j
              /\ ts[i].popularity = ts[j].popularity
              /\ Words(ts[i].keyword) = 2 /\ Words(ts[j].keyword) = 1
              /\ ts[i].source = "seasonal" /\ ts[j].source # "seasonal"

\* C6 (filtering pass): a candidate is admitted to the unique set exactly if
\* its normalized keyword has a length in [3,50] and no run of two or more
\* underscores; every record of trending_searches satisfies both conditions.
C6_FilterExact ==
    /\ \A i \in Processed :
          LET k == lower(strip(all_trends[i].keyword))
          IN  ValidKey(k) <=> \E p \in 1..Len(unique) : unique[p].key = k
    /\ Returned =>
          \A i \in 1..Len(data.trending_searches) :
              ValidKey(lower(strip(data.trending_searches[i].keyword)))

\* collect() returned after the merge met a candidate of normalized length 2
\* (longer as written) and a candidate of normalized length exactly 50
C6_Witness ==
    /\ Returned
    /\ \E i \in 1..Len(all_trends) :
          /\ Len(all_trends[i].keyword) > 2
          /\ Len(lower(strip(all_trends[i].keyword))) = 2
    /\ \E p \in 1..Len(unique) : Len(unique[p].key) = 50

RECURSIVE SumPopularity(_)
SumPopularity(rs) == IF rs = << >> THEN 0 ELSE Head(rs).popularity + SumPopularity(Tail(rs))

OfCategory(rs, cat) == SelectSeq(rs, LAMBDA r : r.category = cat)

RECURSIVE SumCount(_)
SumCount(cs) == IF cs = << >> THEN 0 ELSE Head(cs).count + SumCount(Tail(cs))

\* C7 (category aggregation): popular_categories has exactly one entry per
\* category occurring in trending_searches; the entry's count is the number
\* of records of that category and its avg_popularity their popularity sum
\* divided by the count; the counts sum to len(trending_searches).
C7_CategoryAggregation ==
    Returned =>
        LET ts == data.trending_searches
            pcs == data.popular_categories
        IN  /\ {pcs[i].key : i \in 1..Len(pcs)} = {ts[i].category : i \in 1..Len(ts)}
            /\ \A i, j \in 1..Len(pcs) : i # j => pcs[i].key # pcs[j].key
            /\ \A i \in 1..Len(pcs) :
                  LET group == OfCategory(ts, pcs[i].key)
                  IN  /\ pcs[i].count = Len(group)
                      /\ pcs[i].avg_popularity.num = SumPopularity(group)
                      /\ pcs[i].avg_popularity.den = Len(group)
            /\ SumCount(pcs) = Len(ts)

\* collect() returned a full top 20 whose records fall into several
\* categories, one of them holding at least twelve records
C7_Witness ==
    /\ Returned
    /\ Len(data.trending_searches) = 20
    /\ Len(data.popular_categories) >= 3
    /\ \E i \in 1..Len(data.popular_categories) : data.popular_categories[i].count >= 12

\* C8 (scorer bounds): for every keyword, source and jitter in -2..2, _score
\* returns an integer in [50,99].
C8_ScoreInRange ==
    ret.done => ret.value \in 50..99

\* _score returned for a call whose unclamped sum exceeds 99
C8_Witness ==
    /\ ret.done
    /\ base_score(call.source) + marker_bonus(call.keyword) + words_bonus(call.keyword)
          - length_penalty(call.keyword) + call.jitter > 99
    /\ ret.value = 99

\* the normalized keys of the candidates that pass the filter
ValidKeys ==
    {k \in {lower(strip(all_trends[i].keyword)) : i \in 1..Len(all_trends)} : ValidKey(k)}

\* C9 (top-N truncation): len(trending_searches) is the smaller of 20 and the
\* number of distinct valid normalized keys among all candidates, and every
\* surviving record left out of trending_searches has a sort key <= that of
\* every record in it.
C9_TopTwenty ==
    Returned =>
        LET ts == data.trending_searches
            n == Cardinality(ValidKeys)
            kept == {lower(strip(ts[i].keyword)) : i \in 1..Len(ts)}
        IN  /\ Len(ts) = IF n < 20 THEN n ELSE 20
            /\ \A p \in 1..Len(unique) :
                  unique[p].key \notin kept =>
                      \A i \in 1..Len(ts) : KeyGeq(ts[i], unique[p].value)

\* collect() returned with more than 20 surviving records, so that some were cut
C9_Witness ==
    /\ Returned
    /\ Len(unique) > 20
    /\ Len(data.trending_searches) = 20

\* the candidates an adapter contributed, as collect() found them
Contribution(n) == IF fut[n].raised THEN << >> ELSE fut[n].result

\* s occurs in xs as a block of consecutive elements
IsBlockOf(s, xs) ==
    \E off \in 0..(Len(xs) - Len(s)) : \A i \in 1..Len(s) : xs[off + i] = s[i]

\* C10 (task isolation): an adapter task that raised contributes nothing and
\* its name is not in sources_used, the records of every adapter that
\* completed normally are merged all the same, and the exception of a task
\* never ends collect().
C10_TaskIsolation ==
    /\ exc # "Exception"
    /\ \A n \in handled :
          /\ fut[n].raised => n \notin Range(used_sources)
          /\ (~fut[n].raised /\ fut[n].result # << >>) =>
                /\ n \in Range(used_sources)
                /\ IsBlockOf(fut[n].result, all_trends)
    /\ (pc = "waiting" /\ \E n \in handled : fut[n].raised) =>
          Len(all_trends) = Len(Contribution("pexels_api")) * (IF "pexels_api" \in handled THEN 1 ELSE 0)
                          + Len(Contribution("unsplash")) * (IF "unsplash" \in handled THEN 1 ELSE 0)
                          + Len(Contribution("pytrends")) * (IF "pytrends" \in handled THEN 1 ELSE 0)

\* collect() returned although one task raised, and a record of a sibling
\* that completed normally is in the ranking
C10_Witness ==
    /\ Returned
    /\ \E n, m \in SourceNames :
          /\ fut[n].raised
          /\ ~fut[m].raised /\ fut[m].result # << >>
          /\ m \in Range(data.sources_used)
          /\ \E i \in 1..Len(data.trending_searches) :
                data.trending_searches[i] \in Range(fut[m].result)

\* C11 (timeout liveness): when the 180 s of the collection phase have
\* passed with an adapter still running, collect() still goes on to its
\* result once no worker is left running: it merges the contributions of the
\* adapters handled so far and the seasonal records, and only the
\* contribution of the slow adapter is dropped.
C11_TimeoutOnlyDropsSlowSource ==
    (exc = "TimeoutError" /\ \A n \in SourceNames : fut[n].state = "FINISHED") =>
        /\ pc \in {"merge", "summary", "assemble", "done"}
        /\ \A n \in handled : IsBlockOf(Contribution(n), all_trends)

\* the seasonal records of the run, the last len(buckets) candidates
SeasonalPart == SubSeq(all_trends, Len(all_trends) - Len(buckets) + 1, Len(all_trends))

\* the candidates of the run had the futures completed in submission order
SubmissionOrderTrends ==
    Contribution(sources[1]) \o Contribution(sources[2]) \o Contribution(sources[3])
        \o SeasonalPart

RECURSIVE MergeFrom(_, _)
MergeFrom(u, ts) == IF ts = << >> THEN u ELSE MergeFrom(merge_one(u, Head(ts)), Tail(ts))

\* the dedup/rank pass run on the candidates in submission order
SubmissionOrderUnique == MergeFrom(<< >>, SubmissionOrderTrends)

SubmissionOrderTrending == take(rank(SubmissionOrderUnique), TopN)

SubmissionOrderCategories ==
    LET cs == build_categories(SubmissionOrderTrending)
        n == Len(cs)
    IN  sorted_reverse(cs, {ij \in (1..n) \X (1..n) : avg_gt(cs[ij[1]], cs[ij[2]])})

\* C12 (commutativity over completion order): for the same adapter outputs
\* and seasonal records, every completion order of the futures gives the
\* result of the submission order: the same surviving record per key, the
\* same trending_searches sequence, records in the same positions, and the
\* same popular_categories.
C12_SameResultForEveryOrder ==
    Returned =>
        /\ Range(unique) = Range(SubmissionOrderUnique)
        /\ data.trending_searches = SubmissionOrderTrending
        /\ data.popular_categories = SubmissionOrderCategories

\* number of occurrences of x in the list xs
Count(xs, x) == Cardinality({i \in 1..Len(xs) : xs[i] = x})

\* the task of adapter n completed without exception and returned a non-empty list
Delivered(n) == fut[n].state = "FINISHED" /\ ~fut[n].raised /\ fut[n].result # << >>

C13_Bookkeeping ==
    /\ \A n \in SourceNames :
          /\ Count(used_sources, n) <= 1
          /\ n \in Range(used_sources) <=> (n \in handled /\ Delivered(n))
    /\ Returned =>
          /\ \A n \in SourceNames : n \in Range(data.sources_used) <=> Delivered(n)
          /\ \A i, j \in 1..Len(data.sources_used) :
                i # j => data.sources_used[i] # data.sources_used[j]
          /\ Count(data.sources_used, "seasonal") = 1

\* a future, once submitted, is never submitted again, and a finished future
\* keeps its outcome
C13_SubmittedOnce ==
    \A n \in SourceNames :
        /\ fut[n].state # "PENDING" => fut'[n].state # "PENDING"
        /\ fut[n].state = "FINISHED" => fut'[n] = fut[n]

\* C13 (sources_used bookkeeping): each adapter is submitted exactly once per
\* collect(); an adapter's name is in sources_used if and only if its task
\* completed without exception and returned a non-empty list; sources_used
\* has no duplicates and holds "seasonal" exactly once.
C13_SourcesUsed == [](C13_Bookkeeping) /\ [][C13_SubmittedOnce]_vars

\* collect() returned after one task raised, one returned [] and one
\* returned records
C13_Witness ==
    /\ Returned
    /\ \E n, m, k \in SourceNames :
          /\ fut[n].raised
          /\ ~fut[m].raised /\ fut[m].result = << >>
          /\ Delivered(k)
          /\ data.sources_used = << k, "seasonal" >>

\* C14 (adapters never raise): a call of a source adapter never ends with an
\* exception, whatever its collaborators do; it ends by returning a list of
\* records it collected, also when other seeds or topic pages failed.
C14_AdaptersNeverRaise ==
    /\ adapter.pc # "raised"
    /\ adapter.pc = "returned" => Range(adapter.result) \subseteq Range(adapter.trends)

\* C15 (fetch soft failure): a call of _fetch never ends with an exception
\* raised to its caller; it returns a parsed document or None, whatever the
\* network and the parser do.
C15_FetchNeverRaises ==
    /\ fetch.pc # "raised"
    /\ fetch.pc = "returned" => fetch.result \in {"None", "soup"}

\* the GET ended in a way the claims call retryable: a status of the retry
\* set, or a requests.RequestException
ClaimRetryable(o) ==
    \/ o.kind = "RequestException"
    \/ (o.kind = "response" /\ o.status \in {429, 500, 502, 503, 504})

C16_Budget ==
    /\ Len(fetch.log) <= fetch.max_tries
    /\ fetch.pc = "loop" => fetch.attempt = Len(fetch.log) + 1
    /\ Len(fetch.slept) = Cardinality({i \in 1..Len(fetch.log) : ClaimRetryable(Outcomes[fetch.log[i]])})
    /\ \A i \in 1..Len(fetch.slept) :
          /\ ClaimRetryable(Outcomes[fetch.log[i]])
          /\ fetch.slept[i] = IF Outcomes[fetch.log[i]].kind = "RequestException"
                              THEN 6 * i ELSE 8 * i
    /\ (/\ fetch.pc = "returned"
        /\ Len(fetch.log) = fetch.max_tries
        /\ \A i \in 1..Len(fetch.log) : ClaimRetryable(Outcomes[fetch.log[i]]))
          => fetch.result = "None"

\* every step of the loop issues one more GET or ends the call
C16_Progress ==
    fetch.pc = "loop" =>
        \/ fetch'.pc # "loop"
        \/ (Len(fetch'.log) = Len(fetch.log) + 1 /\ fetch'.attempt = fetch.attempt + 1)

\* C16 (bounded retry): _fetch issues at most max_tries GET requests and
\* terminates; a retryable status and a RequestException each use up one
\* attempt of the same budget; the sleep after attempt i is 0.8*i s after a
\* retryable status and 0.6*i s after an exception; when every attempt was
\* used up the result is None.
C16_BoundedRetry == [](C16_Budget) /\ [][C16_Progress]_vars

\* _fetch returned None after three attempts, two answered with a retryable
\* status and one ended by an exception
C16_Witness ==
    /\ fetch.pc = "returned"
    /\ fetch.result = "None"
    /\ fetch.max_tries = 3
    /\ fetch.log = << "s503", "conn_error", "s429" >>
    /\ fetch.slept = << 8, 12, 24 >>

ClaimHtmlFamily(ct) ==
    \/ contains(lower(ct), <<"t","e","x","t","/","h","t","m","l">>)
    \/ contains(lower(ct), <<"a","p","p","l","i","c","a","t","i","o","n","/","x","h","t","m","l","+","x","m","l">>)

ClaimBotGuard(text) ==
    LET head == lower(SubSeq(text, 1, IF Len(text) < 2000 THEN Len(text) ELSE 2000))
    IN  \/ contains(head, <<"e","n","a","b","l","e"," ","j","a","v","a","s","c","r","i","p","t">>)
        \/ contains(head, <<"c","l","o","u","d","f","l","a","r","e">>)
        \/ contains(head, <<"a","k","a","m","a","i">>)
        \/ contains(head, <<"c","f","-","c","h","l","-","b","y","p","a","s","s">>)

\* the four checks of a response
ClaimPasses(o) ==
    /\ o.kind = "response"
    /\ o.status \in 200..299
    /\ ClaimHtmlFamily(o.content_type)
    /\ ~ClaimBotGuard(o.text)
    /\ o.tags \cap {"a", "img", "h1", "h2", "h3"} # {}

\* a response that ends the fetch: its status is neither of the retry set nor
\* a success, or it is a page that fails one of the three content checks
ClaimFinalFailure(o) ==
    /\ o.kind = "response"
    /\ o.parser = "ok"
    /\ o.status \notin {429, 500, 502, 503, 504}
    /\ \/ o.status \notin 200..299
       \/ (o.status = 200 /\ ~ClaimPasses(o))

\* C17 (non-retryable outcomes end the fetch at once): the first response
\* with a status outside the retry set that is not a success, with a
\* content-type outside the HTML family, with a bot-guard marker in its first
\* 2000 characters or with no a/img/h1/h2/h3 element is the last request of
\* the call, which returns None although attempts remain; a document is
\* returned only for a response that passes all four checks.
C17_NonRetryableEndsFetch ==
    /\ \A i \in 1..Len(fetch.log) :
          ClaimFinalFailure(Outcomes[fetch.log[i]]) =>
              /\ i = Len(fetch.log)
              /\ fetch.pc = "returned"
              /\ fetch.result = "None"
    /\ fetch.result = "soup" =>
          /\ fetch.log # << >>
          /\ ClaimPasses(Outcomes[fetch.log[Len(fetch.log)]])

\* _fetch returned None on its second request, a page without any of the
\* elements, with one attempt left
C17_Witness ==
    /\ fetch.pc = "returned"
    /\ fetch.result = "None"
    /\ fetch.max_tries = 3
    /\ fetch.log = << "s429", "empty_dom" >>

\* C18 (tie stability): records of trending_searches with equal
\* (popularity, word count) stand in insertion order, the insertion position
\* of a key being that of the first valid candidate with that key, also when
\* a later candidate replaced the stored record; the descending sort does not
\* reverse records of equal sort key.
C18_TiesInInsertionOrder ==
    Returned =>
        LET ts == data.trending_searches
            keys == [p \in 1..Len(all_trends) |-> lower(strip(all_trends[p].keyword))]
            first(r) == LET k == lower(strip(r.keyword))
                        IN  CHOOSE p \in 1..Len(all_trends) :
                                /\ keys[p] = k
                                /\ \A q \in 1..(p - 1) : keys[q] # k
        IN  \A i \in 1..Len(ts) : \A j \in (i + 1)..Len(ts) :
                (ts[i].popularity = ts[j].popularity /\ Words(ts[i].keyword) = Words(ts[j].keyword))
                    => first(ts[i]) < first(ts[j])

\* collect() returned a ranking in which a record that replaced an earlier
\* candidate of its key stands before a record of equal sort key that
\* entered the merge between the two
C18_Witness ==
    /\ Returned
    /\ LET ts == data.trending_searches
       IN  \E i \in 1..Len(ts) : \E j \in (i + 1)..Len(ts) :
              /\ ts[i].popularity = ts[j].popularity
              /\ Words(ts[i].keyword) = Words(ts[j].keyword)
              /\ \E p, q, r \in 1..Len(all_trends) :
                    /\ p < q /\ q < r
                    /\ all_trends[r] = ts[i]
                    /\ all_trends[q] = ts[j]
                    /\ all_trends[p] # ts[i]
                    /\ lower(strip(all_trends[p].keyword)) = lower(strip(ts[i].keyword))

\* C19 (category summary ordering): the top_keywords of each category hold at
\* most 5 entries, each the keyword and popularity of a trending_searches
\* record of that category, in descending order of popularity, and no record
\* of the category left out is more popular than one listed;
\* popular_categories is in descending order of avg_popularity.
C19_CategoryOrdering ==
    Returned =>
        LET ts == data.trending_searches
            pcs == data.popular_categories
        IN  /\ \A c \in 1..Len(pcs) :
                  LET tk == pcs[c].top_keywords
                      group == OfCategory(ts, pcs[c].key)
                      listed == {tk[i].keyword : i \in 1..Len(tk)}
                  IN  /\ Len(tk) = (IF Len(group) < 5 THEN Len(group) ELSE 5)
                      /\ Cardinality(listed) = Len(tk)
                      /\ \A i \in 1..Len(tk) :
                            \E g \in 1..Len(group) :
                                /\ group[g].keyword = tk[i].keyword
                                /\ group[g].popularity = tk[i].popularity
                      /\ \A i \in 1..(Len(tk) - 1) : tk[i].popularity >= tk[i + 1].popularity
                      /\ \A g \in 1..Len(group) :
                            group[g].keyword \notin listed =>
                                \A i \in 1..Len(tk) : tk[i].popularity >= group[g].popularity
            /\ \A c \in 1..(Len(pcs) - 1) :
                  pcs[c].avg_popularity.num * pcs[c + 1].avg_popularity.den
                      >= pcs[c + 1].avg_popularity.num * pcs[c].avg_popularity.den

\* collect() returned a summary with a category of more than five records of
\* several popularities, and with categories of different averages
C19_Witness ==
    /\ Returned
    /\ LET pcs == data.popular_categories
       IN  /\ \E c \in 1..Len(pcs) :
                 /\ pcs[c].count > 5
                 /\ Len(pcs[c].top_keywords) = 5
                 /\ pcs[c].top_keywords[1].popularity > pcs[c].top_keywords[5].popularity
           /\ \E c \in 1..(Len(pcs) - 1) :
                 pcs[c].avg_popularity.num * pcs[c + 1].avg_popularity.den
                     > pcs[c + 1].avg_popularity.num * pcs[c].avg_popularity.den

\* the season of a month and the buckets, as the claim gives them
ClaimSeason(month) ==
    CASE month \in 1..3 -> <<"w","i","n","t","e","r">>
      [] month \in 4..6 -> <<"s","p","r","i","n","g">>
      [] month \in 7..9 -> <<"s","u","m","m","e","r">>
      [] month \in 10..12 -> <<"a","u","t","u","m","n">>

ClaimBuckets ==
    << <<"b","u","s","i","n","e","s","s">>,
       <<"l","i","f","e","s","t","y","l","e">>,
       <<"n","a","t","u","r","e">>,
       <<"t","e","c","h","n","o","l","o","g","y">>,
       <<"f","o","o","d">>,
       <<"e","d","u","c","a","t","i","o","n">> >>

\* C20 (seasonal fallback shape): for every month 1..12 source_seasonal
\* returns exactly six records, one per bucket in the order business,
\* lifestyle, nature, technology, food, education, with pairwise distinct
\* keywords "<season> <bucket>", popularity in [70,88] and source "seasonal",
\* the season being winter for months 1-3, spring for 4-6, summer for 7-9 and
\* autumn for 10-12; every record passes the length and underscore filter of
\* the collector.
C20_SeasonalShape ==
    ret.done =>
        LET rs == ret.value
        IN  /\ Len(rs) = 6
            /\ \A b \in 1..6 :
                  /\ rs[b].keyword = ClaimSeason(call.month) \o << " " >> \o ClaimBuckets[b]
                  /\ rs[b].popularity \in 70..88
                  /\ rs[b].source = "seasonal"
                  /\ ValidKey(lower(strip(rs[b].keyword)))
            /\ Cardinality({rs[b].keyword : b \in 1..Len(rs)}) = 6

\* source_seasonal returned for December, the last month of the last quarter,
\* with the largest roll
C20_Witness ==
    /\ ret.done
    /\ call.month = 12
    /\ ret.value[1].keyword = <<"a","u","t","u","m","n"," ","b","u","s","i","n","e","s","s">>
    /\ ret.value[6].popularity = 88

\* a step in which an adapter thread ends its task leaves the merge
\* structures as they are
C21_ThreadsLeaveMerge ==
    (\E n \in SourceNames : fut[n].state = "RUNNING" /\ fut'[n].state = "FINISHED") =>
        /\ all_trends' = all_trends
        /\ used_sources' = used_sources
        /\ unique' = unique

\* the merge structures are written by the orchestrator alone, in the order
\* of collect(): during the loop all_trends holds the lists of the handled
\* futures and nothing else, and the seasonal append and the dedup/rank pass
\* come after every future was handled
C21_MergeAfterAll ==
    LET len(n) == IF n \in handled THEN Len(Contribution(n)) ELSE 0
        total == len("pexels_api") + len("unsplash") + len("pytrends")
    IN  /\ pc \in {"start", "waiting", "shutdown", "raised"} =>
              /\ Len(all_trends) = total
              /\ unique = << >>
              /\ "seasonal" \notin Range(used_sources)
        /\ pc \in {"merge", "summary", "assemble", "done"} =>
              /\ handled = SourceNames
              /\ \A n \in SourceNames : fut[n].state = "FINISHED"
              /\ Len(all_trends) = total + Len(buckets)
        /\ \A n \in handled : IsBlockOf(Contribution(n), all_trends)

\* C21 (single-threaded merge): adapter threads never write all_trends,
\* used_sources or unique; the orchestrator alone writes them, and the
\* seasonal append and the dedup/rank pass start only after every submitted
\* future was handled, so that all_trends holds each handled list exactly
\* once, no record lost or duplicated.
C21_SingleThreadedMerge == [](C21_MergeAfterAll) /\ [][C21_ThreadsLeaveMerge]_vars

\* inside the loop: one adapter's list has been merged while another adapter
\* has returned records that the orchestrator has not handled yet
C21_Witness ==
    /\ pc = "waiting"
    /\ \E n, m \in SourceNames :
          /\ m \in handled /\ Delivered(m)
          /\ n \notin handled /\ Delivered(n)
          /\ all_trends = fut[m].result

\* C22 (raw count): total_keywords_found is the sum of the lengths of the
\* lists returned by the adapters that completed without fault plus the six
\* seasonal records, counted before filtering and deduplication; so it is at
\* least len(trending_searches) and at least 6.
C22_RawCount ==
    Returned =>
        /\ data.total_keywords_found
              = Len(Contribution("pexels_api")) + Len(Contribution("unsplash"))
                  + Len(Contribution("pytrends")) + 6
        /\ data.total_keywords_found >= Len(data.trending_searches)
        /\ data.total_keywords_found >= 6

\* collect() returned with one adapter faulted and a raw count above the
\* number of surviving records, candidates having been filtered or merged
C22_Witness ==
    /\ Returned
    /\ \E n \in SourceNames : fut[n].raised
    /\ data.total_keywords_found > Len(unique)
    /\ data.total_keywords_found > 6
    /\ Len(unique) = Len(data.trending_searches)

\* C23 (adapter output cap): for every adapter and every limit_terms >= 0 the
\* returned list has length min(limit_terms, number of records harvested),
\* every returned record is one of the harvested records, and one seed or
\* URL contributes at most its cap: 5 for Pexels, 6 for the Unsplash API, 10
\* for a topic page.
C23_ReturnedCut ==
    adapter.pc = "returned" =>
        /\ Len(adapter.result) = Min(adapter.limit_terms, Len(adapter.trends))
        /\ Range(adapter.result) \subseteq Range(adapter.trends)

C23_SeedCap ==
    (adapter.pc = "loop" /\ adapter'.pc = "loop") =>
        /\ adapter.src = "pexels_api" => Len(adapter'.trends) - Len(adapter.trends) <= 5
        /\ adapter.src = "unsplash_api" => Len(adapter'.trends) - Len(adapter.trends) <= 6
        /\ adapter.src = "unsplash_topics" => Len(adapter'.trends) - Len(adapter.trends) <= 10

C23_AdapterOutputCap == [](C23_ReturnedCut) /\ [][C23_SeedCap]_vars

\* an adapter harvested a topic page of more than ten keywords and returned
\* fewer records than it harvested
C23_Witness ==
    /\ adapter.pc = "returned"
    /\ adapter.src = "unsplash_topics"
    /\ Len(adapter.trends) >= 10
    /\ adapter.limit_terms = 2
    /\ Len(adapter.result) = 2

\* C24 (credential-based mode selection): the Unsplash adapter runs exactly
\* one mode, the topic pages if and only if no access key is configured and
\* the API if and only if one is, and an API mode that fails or returns
\* nothing does not go on to the topic pages; source_pexels_api without a key
\* and source_pytrends without the library return [] before any seed is
\* requested (adapter.i counts the seeds and pages visited).
C24_ModeByCredential ==
    /\ (adapter.fn = "source_unsplash_api_or_topics" /\ adapter.pc # "call") =>
          adapter.src = (IF adapter.available THEN "unsplash_api" ELSE "unsplash_topics")
    /\ (adapter.fn \in {"source_pexels_api", "source_pytrends"}
          /\ ~adapter.available /\ adapter.pc # "call") =>
          /\ adapter.pc = "returned"
          /\ adapter.result = << >>
          /\ adapter.i = 0
          /\ adapter.trends = << >>

C24_ModeKept == adapter.src # "" => adapter'.src = adapter.src

C24_ModeSelection == [](C24_ModeByCredential) /\ [][C24_ModeKept]_vars

\* the API mode visited every seed, harvested nothing and returned [] as the
\* result of the Unsplash adapter
C24_Witness ==
    /\ adapter.fn = "source_unsplash_api_or_topics"
    /\ adapter.available
    /\ adapter.pc = "returned"
    /\ adapter.src = "unsplash_api"
    /\ adapter.i > Len(unsplash_seeds)
    /\ adapter.result = << >>
    /\ adapter.limit_terms > 0

\* C25 (extractor result): for every text and every cap >= 0,
\* _extract_keywords returns a list without duplicates, of length
\* min(cap, size of the candidate set), whose elements are members of the
\* candidate set: the surviving tokens, and the bigrams and trigrams of
\* consecutive surviving tokens, a trigram only when it has 3 to 40
\* characters; no returned phrase has a component that is a stop-word or
\* shorter than 2 characters.
ClaimTokens(text) ==
    LET words == split(sub_symbols(lower(text)))
    IN  SelectSeq(words, LAMBDA w : w \notin _STOP_WORDS /\ Len(w) >= 2)

ClaimCandidates(text) ==
    LET ts == ClaimTokens(text)
    IN  {ts[i] : i \in 1..Len(ts)}
        \cup {ts[i] \o << " " >> \o ts[i + 1] : i \in 1..(Len(ts) - 1)}
        \cup {p \in {ts[i] \o << " " >> \o ts[i + 1] \o << " " >> \o ts[i + 2] :
                        i \in 1..(Len(ts) - 2)} : Len(p) >= 3 /\ Len(p) <= 40}

C25_ExtractorResult ==
    (call.fn = "_extract_keywords" /\ ret.done) =>
        LET res == ret.value
            candidates == ClaimCandidates(call.text)
        IN  /\ \A i, j \in 1..Len(res) : res[i] = res[j] => i = j
            /\ Len(res) = Min(call.hard_cap, Cardinality(candidates))
            /\ Range(res) \subseteq candidates
            /\ \A p \in Range(res) : \A w \in Range(split(p)) :
                  w \notin _STOP_WORDS /\ Len(w) >= 2

\* a text with stop-words, a short token and punctuation gave more
\* candidates than the cap, and the call returned cap of them
C25_Witness ==
    /\ call.fn = "_extract_keywords"
    /\ ret.done
    /\ \E w \in Range(split(lower(call.text))) : w \in _STOP_WORDS \/ Len(w) < 2
    /\ call.hard_cap = 2
    /\ Len(ret.value) = 2
    /\ Cardinality(ClaimCandidates(call.text)) > 2
    /\ \E p \in Range(ret.value) : Len(split(p)) > 1

\* C26 (categorizer precedence): _categorize returns a member of the closed
\* set of eight categories; for a keyword matching the markers of several
\* categories it returns the first of them in the order technology,
\* business, medical, education, food, nature, lifestyle; it returns general
\* exactly when no marker set matches.
ClaimOrder ==
    << "technology", "business", "medical", "education", "food", "nature", "lifestyle" >>

ClaimMarkers ==
    << markers_technology, markers_business, markers_medical, markers_education,
       markers_food, markers_nature, markers_lifestyle >>

ClaimMatching(keyword) ==
    {n \in 1..7 : \E m \in 1..Len(ClaimMarkers[n]) : contains(lower(keyword), ClaimMarkers[n][m])}

C26_CategorizerPrecedence ==
    (call.fn = "_categorize" /\ ret.done) =>
        LET matching == ClaimMatching(call.keyword)
        IN  /\ ret.value \in {ClaimOrder[n] : n \in 1..7} \cup {"general"}
            /\ matching # {} =>
                  ret.value = ClaimOrder[CHOOSE n \in matching : \A m \in matching : n <= m]
            /\ ret.value = "general" <=> matching = {}

\* a keyword in upper case with markers of three categories, the first of
\* them in the rule order written last, was categorized
C26_Witness ==
    /\ call.fn = "_categorize"
    /\ ret.done
    /\ ClaimMatching(call.keyword) = {2, 5, 7}
    /\ call.keyword # lower(call.keyword)
    /\ ret.value = "business"

\* C27 (popularity range): every record of trending_searches that came from
\* an adapter has an integer popularity in [50,99], every record with source
\* 'seasonal' one in [70,88]; merge, dedup and rank never change a record's
\* popularity, category or source: each record of the result is a record of
\* all_trends as the sources returned it.
C27_PopularityRange ==
    Returned =>
        \A i \in 1..Len(data.trending_searches) :
            LET r == data.trending_searches[i]
            IN  /\ r.popularity \in Int
                /\ r.source = "seasonal" => (70 <= r.popularity /\ r.popularity <= 88)
                /\ r.source # "seasonal" => (50 <= r.popularity /\ r.popularity <= 99)
                /\ 0 <= r.popularity /\ r.popularity <= 100
                /\ \E j \in 1..Len(all_trends) :
                      /\ all_trends[j].keyword = r.keyword
                      /\ all_trends[j].popularity = r.popularity
                      /\ all_trends[j].category = r.category
                      /\ all_trends[j].source = r.source

\* collect() returned a result in which a record replaced a less popular
\* variant of its keyword, next to seasonal records at 70 and above it
C27_Witness ==
    /\ Returned
    /\ \E i, j \in 1..Len(all_trends) :
          /\ i < j
          /\ all_trends[i].keyword # all_trends[j].keyword
          /\ normalize(all_trends[i].keyword) = normalize(all_trends[j].keyword)
          /\ all_trends[i].popularity < all_trends[j].popularity
          /\ \E k \in 1..Len(data.trending_searches) : data.trending_searches[k] = all_trends[j]
    /\ \E k \in 1..Len(data.trending_searches) :
          data.trending_searches[k].source = "seasonal" /\ data.trending_searches[k].popularity = 70
    /\ \E k \in 1..Len(data.trending_searches) :
          data.trending_searches[k].source = "seasonal" /\ data.trending_searches[k].popularity > 70

\* C28 (seasonal view): seasonal_trends is exactly the subsequence of
\* trending_searches whose source is 'seasonal', in the same order; it holds
\* no seasonal record that missed the top 20 or lost deduplication, and it
\* may be empty although sources_used contains 'seasonal'.
C28_SeasonalView ==
    Returned =>
        LET ts == data.trending_searches
            st == data.seasonal_trends
            at == {i \in 1..Len(ts) : ts[i].source = "seasonal"}
        IN  /\ Len(st) = Cardinality(at)
            /\ \A n \in 1..Len(st) :
                  st[n] = ts[CHOOSE i \in at : Cardinality({j \in at : j < i}) = n - 1]

\* twenty adapter records rank above the six seasonal records: the view is
\* empty, sources_used names 'seasonal' and all_trends holds the seasonals
C28_Witness ==
    /\ Returned
    /\ data.seasonal_trends = << >>
    /\ \E i \in 1..Len(data.sources_used) : data.sources_used[i] = "seasonal"
    /\ Cardinality({i \in 1..Len(all_trends) : all_trends[i].source = "seasonal"}) = 6
    /\ Len(data.trending_searches) = 20

\* C29 (source consistency): the source field of every record of
\* trending_searches is an element of sources_used.
C29_SourceConsistency ==
    Returned =>
        \A i \in 1..Len(data.trending_searches) :
            \E j \in 1..Len(data.sources_used) :
                data.sources_used[j] = data.trending_searches[i].source

\* C30 (workflow report consistency): when daily_workflow has run all eight
\* steps in order and returns True, the report create_workflow_report wrote
\* (workflow_report.json and summary.txt) records success = true; and when a
\* step raises, daily_workflow returns False with steps_completed a proper
\* prefix of the step order.
C30_ReportConsistency ==
    /\ (workflow.result = "True" /\ workflow.steps_completed = step_order) =>
          /\ workflow.workflow_report_json.written
          /\ workflow.workflow_report_json.success
          /\ workflow.summary_txt.written
          /\ workflow.summary_txt.success
    /\ workflow.result = "False" =>
          /\ Len(workflow.steps_completed) < Len(step_order)
          /\ workflow.steps_completed = SubSeq(step_order, 1, Len(workflow.steps_completed))

====
